---- MODULE Spec2Model ----
(***************************************************************************)
(* Model of the task-assignment workflow of the staff bot:                 *)
(*   src/src/commands/assign-task.ts  (creation flow, control activations) *)
(*   src/src/services/appwrite.ts     (task store: create / get / update)  *)
(*   src/unnamed/part_001             (interaction listener)               *)
(*                                                                         *)
(* Every awaited external call (store I/O, transport call) is one step:    *)
(* the step completes the pending call with one of its outcomes and runs   *)
(* the synchronous code that follows it up to the next awaited call.       *)
(* JavaScript strings that the code builds, splits or parses are modelled  *)
(* as sequences of one-character strings; a JavaScript number is <<n>>,    *)
(* NaN is <<>>; null / undefined pointers are <<>>.                        *)
(***************************************************************************)
EXTENDS Integers, Sequences, FiniteSets, TLC

(***************************************************************************)
(* Bounds of the model.                                                    *)
(***************************************************************************)
MaxRuns == 2          \* creation commands issued
MaxHandlers == 2      \* control activations issued
ClockStart == 35      \* Date.now() at start (35 is "z" in base 36)
MaxTicks == 1         \* clock ticks after ClockStart
MaxStored == 26       \* tasks stored before the task panel lists them
MaxOthers == 1        \* of which tasks of another assignee or guild

Runs == 1..MaxRuns
Handlers == 1..MaxHandlers

(***************************************************************************)
(* Text and number conversions of the JavaScript runtime.                  *)
(***************************************************************************)
Digits == <<"0","1","2","3","4","5","6","7","8","9">>
Base36Digits == Digits \o <<"a","b","c","d","e","f","g","h","i","j","k","l","m",
                            "n","o","p","q","r","s","t","u","v","w","x","y","z">>

NaN == <<>>
IsDigit(c) == \E i \in 1..10 : Digits[i] = c
DigitVal(c) == (CHOOSE i \in 1..10 : Digits[i] = c) - 1

RECURSIVE DecimalValue(_)
DecimalValue(s) ==
  IF s = <<>> THEN 0
  ELSE 10 * DecimalValue(SubSeq(s, 1, Len(s) - 1)) + DigitVal(s[Len(s)])

\* Number(text): "" is 0, an optionally signed run of digits is its value,
\* anything else over the model's alphabet (digits, "-", letters) is NaN.
JSNumber(s) ==
  IF s = <<>> THEN <<0>>
  ELSE IF \A i \in 1..Len(s) : IsDigit(s[i]) THEN <<DecimalValue(s)>>
  ELSE IF Len(s) > 1 /\ s[1] = "-" /\ \A i \in 2..Len(s) : IsDigit(s[i])
       THEN <<0 - DecimalValue(Tail(s))>>
  ELSE NaN

RECURSIVE RadixText(_, _)
RadixText(n, base) ==
  IF n < base THEN <<Base36Digits[n + 1]>>
  ELSE RadixText(n \div base, base) \o <<Base36Digits[(n % base) + 1]>>

\* String(number)
JSString(x) ==
  IF x = NaN THEN <<"N","a","N">>
  ELSE IF x[1] < 0 THEN <<"-">> \o RadixText(0 - x[1], 10)
  ELSE RadixText(x[1], 10)

\* Date.now().toString(36)
ToString36(n) == RadixText(n, 36)

\* s.slice(0, n)
Slice0(s, n) == SubSeq(s, 1, IF Len(s) < n THEN Len(s) ELSE n)

(***************************************************************************)
(* Identities, configuration and inputs.                                   *)
(***************************************************************************)
Null == <<>>

Users == {"u1", "u2", "u3"}
\* interaction.guild.members.cache: u1 holds Administrator, u2 holds role r1,
\* u3 holds an unrelated role.
GuildMember(u) ==
  CASE u = "u1" -> [hasPerm |-> TRUE,  roles |-> {}]
    [] u = "u2" -> [hasPerm |-> FALSE, roles |-> {"r1"}]
    [] OTHER    -> [hasPerm |-> FALSE, roles |-> {"r2"}]

Assignees == {"u2", "u3"}
Priorities == {"low", "high"}
GuildId == <<"9","0","0","0","0","0","1">>
StaffChannel == <<"c","1">>

\* the 'due' option of the command, as typed
DueInputs == { <<"2","0","2","5","-","0","1","-","0","1">>,
               <<"2","0","2","5","-","1","3","-","0","1">>,
               <<"s","o","o","n">> }

\* process configuration: STAFF_CHANNEL_ID and STAFF_ROLE_IDS
Configs == [STAFF_CHANNEL_ID : {Null, StaffChannel}, STAFF_ROLE_IDS : {{}, {"r1"}}]

\* the values the two selectors offer (buildControls); the progress options
\* are a percentage and the text of its value
ProgressChoices == { [percent |-> 0, value |-> <<"0">>], [percent |-> 25, value |-> <<"2","5">>],
                     [percent |-> 50, value |-> <<"5","0">>], [percent |-> 75, value |-> <<"7","5">>],
                     [percent |-> 100, value |-> <<"1","0","0">>] }
ProgressOptions == { c.value : c \in ProgressChoices }
StatusOptions == {"assigned", "in_progress", "blocked", "done"}

(***************************************************************************)
(* new Date(dueInput) and Date.prototype.toISOString, on date-only inputs. *)
(* A Date is <<y, m, d>>; an invalid Date is NaN.                          *)
(***************************************************************************)
ParseDate(s) ==
  IF /\ Len(s) = 10
     /\ s[5] = "-" /\ s[8] = "-"
     /\ \A i \in {1, 2, 3, 4, 6, 7, 9, 10} : IsDigit(s[i])
  THEN LET y == DecimalValue(SubSeq(s, 1, 4))
           m == DecimalValue(SubSeq(s, 6, 7))
           d == DecimalValue(SubSeq(s, 9, 10))
       IN IF m >= 1 /\ m <= 12 /\ d >= 1 /\ d <= 31 THEN <<y, m, d>> ELSE NaN
  ELSE NaN

Pad(txt, n) == IF Len(txt) < n THEN [i \in 1..(n - Len(txt)) |-> "0"] \o txt ELSE txt

ToISOString(date) ==
  Pad(RadixText(date[1], 10), 4) \o <<"-">> \o Pad(RadixText(date[2], 10), 2) \o <<"-">>
    \o Pad(RadixText(date[3], 10), 2) \o <<"T","0","0",":","0","0",":","0","0",".","0","0","0","Z">>

(***************************************************************************)
(* Task store (appwrite.ts).  A stored document keeps progress as text.    *)
(***************************************************************************)
\* createTask: the document handed to createDocument
CreateTaskDocument(doc) == [doc EXCEPT !.progress = JSString(doc.progress)]

\* createDocument replacing a document that has the same id
CreateDocumentUpserts(st, id) == TRUE

\* createDocument fails (409) when the id is already a key of the collection
CreateDocumentAccepts(st, id) == id \notin DOMAIN st

createTask(st, doc) == (doc.task_id :> CreateTaskDocument(doc)) @@ st

\* doc.f ?? fallback: an attribute the document lacks reads as null
Coalesce(doc, f, fallback) ==
  IF f \in DOMAIN doc THEN (IF doc[f] = Null THEN fallback ELSE doc[f]) ELSE fallback

\* getTask: decode of a stored document
DecodeTask(doc) ==
  [task_id |-> doc.task_id, guild_id |-> doc.guild_id,
   assigned_by |-> doc.assigned_by, assigned_to |-> doc.assigned_to,
   title |-> doc.title,
   description |-> IF "description" \in DOMAIN doc THEN doc.description ELSE "",
   priority |-> IF "priority" \in DOMAIN doc THEN doc.priority ELSE "",
   due_date |-> Coalesce(doc, "due_date", Null),
   status |-> IF "status" \in DOMAIN doc THEN doc.status ELSE "assigned",
   progress |-> JSNumber(IF "progress" \in DOMAIN doc THEN doc.progress ELSE <<"0">>),
   dm_message_id |-> Coalesce(doc, "dm_message_id", Null),
   channel_message_id |-> Coalesce(doc, "channel_message_id", Null),
   channel_id |-> Coalesce(doc, "channel_id", Null),
   thread_id |-> Coalesce(doc, "thread_id", Null),
   created_at |-> doc.created_at, updated_at |-> doc.updated_at]

\* getTask: <<>> (null) when the document is absent or the read fails
getTask(st, id, ok) == IF ok /\ id \in DOMAIN st THEN <<DecodeTask(st[id])>> ELSE <<>>

\* updateTask with the progress left out of the data
UpdatePatchWithoutProgress(patch, now) ==
  ("updated_at" :> now) @@ [f \in DOMAIN patch \ {"progress"} |-> patch[f]]

\* updateTask stamping created_at along with updated_at
UpdatePatchStampingCreation(patch, now) ==
  ("updated_at" :> now) @@ ("created_at" :> now) @@
  (IF "progress" \in DOMAIN patch
     THEN ("progress" :> JSString(patch.progress)) @@ patch
     ELSE patch)

\* updateTask leaving updated_at as it is
UpdatePatchUnstamped(patch, now) ==
  IF "progress" \in DOMAIN patch
    THEN ("progress" :> JSString(patch.progress)) @@ patch
    ELSE patch

\* updateTask: the data handed to updateDocument
UpdatePatch(patch, now) ==
  ("updated_at" :> now) @@
  (IF "progress" \in DOMAIN patch
     THEN ("progress" :> JSString(patch.progress)) @@ patch
     ELSE patch)

\* updateDocument fails (404) when the id is no key of the collection
UpdateDocumentAccepts(st, id) == id \in DOMAIN st

\* updateDocument resetting an attribute the data does not name
MergeDocumentResetting(doc, data) == data @@ [doc EXCEPT !.description = ""]

\* updateDocument merges the data into the stored document
MergeDocument(doc, data) == data @@ doc

updateTask(st, id, patch, now) ==
  [st EXCEPT ![id] = MergeDocument(st[id], UpdatePatch(patch, now))]

\* updateTaskProgress(taskId, progress, status)
updateTaskProgress(st, id, progress, status, now) ==
  updateTask(st, id, [progress |-> progress, status |-> status], now)

\* listDocuments is called without Query.limit (appwrite.ts 121-128): the
\* server then returns its default page, the first 25 matching documents
DefaultPageLimit == 25

\* Query.equal('assigned_to', assignedTo), Query.equal('guild_id', guildId)
MatchingIds(st, assignedTo, guildId) ==
  {id \in DOMAIN st : st[id].assigned_to = assignedTo /\ st[id].guild_id = guildId}

\* the matching documents in the order the server returns them (oldest first)
RECURSIVE InCreationOrder(_, _)
InCreationOrder(st, ids) ==
  IF ids = {} THEN <<>>
  ELSE LET first == CHOOSE id \in ids : \A other \in ids : st[id].created_at <= st[other].created_at
       IN <<first>> \o InCreationOrder(st, ids \ {first})

\* listDocuments: one page of the filtered collection
ListDocuments(st, assignedTo, guildId) ==
  LET all == InCreationOrder(st, MatchingIds(st, assignedTo, guildId))
  IN SubSeq(all, 1, IF Len(all) < DefaultPageLimit THEN Len(all) ELSE DefaultPageLimit)

\* lines 130-167: the task built from a listed document
ListedTask(doc) ==
  [DecodeTask(doc) EXCEPT
     !.status = IF @ \in {"in_progress", "blocked", "done", "assigned"} THEN @ ELSE "assigned",
     !.priority = IF @ \in {"low", "medium", "high"} THEN @ ELSE ""]

\* listUserTasks(assignedTo, guildId): [] when the store call fails
listUserTasks(st, assignedTo, guildId, ok) ==
  IF ok THEN LET ids == ListDocuments(st, assignedTo, guildId)
             IN [i \in 1..Len(ids) |-> ListedTask(st[ids[i]])]
        ELSE <<>>

(***************************************************************************)
(* State.                                                                  *)
(***************************************************************************)
VARIABLES
  clock,      \* Date.now()
  config,     \* process configuration
  store,      \* tasks collection: document id -> stored document
  rpc,        \* creation run -> the awaited call it is suspended at
  cmd,        \* creation run -> the command's options and caller
  rl,         \* creation run -> locals of execute / showTaskModal
  replies,    \* creation run -> messages delivered to the requester
  modals,     \* number of details forms submitted so far
  acked,      \* submitted forms already acknowledged (deferUpdate)
  dm,         \* creation run -> the DM it sent (<<>> if none)
  chan,       \* creation run -> its staff-channel post (<<>> if none)
  thread,     \* creation run -> its private thread (<<>> if none)
  hpc,        \* control activation -> the awaited call it is suspended at
  hin,        \* control activation -> the interaction (customId, user, values, message)
  hl,         \* control activation -> locals of handleComponent
  hreplies,   \* control activation -> messages delivered to the actor
  listed,     \* the last listUserTasks call and its result (<<>> if none)
  lookup,     \* the getRobloxUsername call: its position, locals and outcome
  call,       \* the last call made on the store directly, with its outcome (<<>> if none)
  profiles    \* users collection: document id -> stored profile

runVars == <<rpc, cmd, rl, replies, modals, acked>>
surfaceVars == <<dm, chan, thread>>
handlerVars == <<hpc, hin, hl, hreplies>>

NoCmd == [caller |-> "u1", inGuild |-> FALSE, cached |-> FALSE, assignee |-> "u2",
          priority |-> "low", due |-> <<>>]

NoLocals == [idsAtStart |-> {}, creates |-> 0, replied |-> FALSE, channel |-> FALSE,
             warnings |-> <<>>, submitted |-> 0, timedOut |-> FALSE, task |-> <<>>,
             dmMessageId |-> Null, dmFailed |-> FALSE, channelMessageId |-> Null,
             channelId |-> Null, threadId |-> Null]

\* isAdmin with the role test not restricted to the configured roles
isAdminAnyRole(c, cfg) ==
  IF ~c.inGuild THEN FALSE
  ELSE LET guildMember == IF c.cached THEN <<GuildMember(c.caller)>> ELSE <<>>
           hasPerm == IF guildMember # <<>> THEN guildMember[1].hasPerm ELSE FALSE
       IN IF hasPerm THEN TRUE
          ELSE IF guildMember # <<>> /\ cfg.STAFF_ROLE_IDS # {}
               THEN guildMember[1].roles # {}
               ELSE FALSE

\* isAdmin(interaction)
isAdmin(c, cfg) ==
  IF ~c.inGuild THEN FALSE
  ELSE LET guildMember == IF c.cached THEN <<GuildMember(c.caller)>> ELSE <<>>
           hasPerm == IF guildMember # <<>> THEN guildMember[1].hasPerm ELSE FALSE
       IN IF hasPerm THEN TRUE
          ELSE IF guildMember # <<>> /\ cfg.STAFF_ROLE_IDS # {}
               THEN guildMember[1].roles \cap cfg.STAFF_ROLE_IDS # {}
               ELSE FALSE

\* warnings pushed by execute
WarnChannelUnset == "STAFF_CHANNEL_ID not set"
WarnChannelFetch == "Failed to fetch the staff channel"
WarnChannelType == "Staff channel is not a standard text channel"
WarnChannelSend == "Failed to send the task message in the staff channel"
WarnThread == "Failed to create the private task thread"

\* taskData with the requester recorded as the assignee
TaskDataAssignsCaller(c) ==
  [guild_id |-> GuildId, assigned_by |-> c.caller, assigned_to |-> c.caller,
   priority |-> c.priority, due_date |-> ToISOString(ParseDate(c.due)),
   status |-> "assigned", progress |-> <<0>>]

\* taskData with an initial status outside the enumeration
TaskDataOpenStatus(c) ==
  [guild_id |-> GuildId, assigned_by |-> c.caller, assigned_to |-> c.assignee,
   priority |-> c.priority, due_date |-> ToISOString(ParseDate(c.due)),
   status |-> "open", progress |-> <<0>>]

\* taskData of execute (lines 239-247)
TaskData(c) ==
  [guild_id |-> GuildId, assigned_by |-> c.caller, assigned_to |-> c.assignee,
   priority |-> c.priority, due_date |-> ToISOString(ParseDate(c.due)),
   status |-> "assigned", progress |-> <<0>>]

\* taskId of showTaskModal (line 158)
IdPrefixLen == 6

\* the task id with ":" between the guild prefix and the time
NewTaskIdWithColon(guildId, now) == Slice0(guildId, IdPrefixLen) \o <<":">> \o ToString36(now)

NewTaskId(guildId, now) == Slice0(guildId, IdPrefixLen) \o <<"-">> \o ToString36(now)

\* task of showTaskModal (lines 161-168)
NewTask(c, title, description, now) ==
  TaskData(c) @@ [task_id |-> NewTaskId(GuildId, now), title |-> title,
                  description |-> description, created_at |-> now, updated_at |-> now]

\* taskEmbed stamping the time of rendering (setTimestamp without argument)
taskEmbedStampedAtRendering(doc) ==
  [title |-> doc.title,
   description |-> IF doc.description = "" THEN "No description provided" ELSE doc.description,
   assigned_to |-> doc.assigned_to, assigned_by |-> doc.assigned_by,
   priority |-> IF doc.priority = "" THEN "medium" ELSE doc.priority,
   status |-> doc.status, progress |-> JSString(doc.progress) \o <<"%">>,
   due |-> IF doc.due_date = Null THEN <<"N","o","t"," ","s","e","t">> ELSE doc.due_date,
   footer |-> doc.task_id, timestamp |-> clock]

\* taskEmbed(doc)
taskEmbed(doc) ==
  [title |-> doc.title,
   description |-> IF doc.description = "" THEN "No description provided" ELSE doc.description,
   assigned_to |-> doc.assigned_to, assigned_by |-> doc.assigned_by,
   priority |-> IF doc.priority = "" THEN "medium" ELSE doc.priority,
   status |-> doc.status, progress |-> JSString(doc.progress) \o <<"%">>,
   due |-> IF doc.due_date = Null THEN <<"N","o","t"," ","s","e","t">> ELSE doc.due_date,
   footer |-> doc.task_id, timestamp |-> doc.updated_at]

\* buildControls(taskId): the customIds of the two selectors
TaskPrefix == <<"t","a","s","k",":">>
ProgressKind == <<"p","r","o","g","r","e","s","s">>
StatusKind == <<"s","t","a","t","u","s">>
buildControls(taskId) ==
  [progress |-> TaskPrefix \o ProgressKind \o <<":">> \o taskId,
   status |-> TaskPrefix \o StatusKind \o <<":">> \o taskId]

Payload(doc) == [embed |-> taskEmbed(doc), components |-> buildControls(doc.task_id),
                 threadLink |-> Null]

Msg(kind) == [kind |-> kind]

(***************************************************************************)
(* Creation flow: execute and showTaskModal (assign-task.ts 115-380).      *)
(***************************************************************************)
Go(r, label, locals) ==
  /\ rpc' = [rpc EXCEPT ![r] = label]
  /\ rl' = [rl EXCEPT ![r] = locals]

Say(r, m) == replies' = [replies EXCEPT ![r] = Append(@, m)]

\* execute without the isNaN test on the parsed date
AfterChannelUnchecked(c) == "show_modal"

\* lines 219-250: parse the due date, then reply or show the form
AfterChannel(c) == IF ParseDate(c.due) = NaN THEN "reply_invalid" ELSE "show_modal"

\* lines 185-217: the synchronous prefix of execute
IssueCommand(r, inputs) ==
  /\ rpc[r] = "idle"
  /\ \E caller \in inputs.callers, inGuild \in inputs.inGuild, cached \in inputs.cached,
        assignee \in inputs.assignees, priority \in inputs.priorities, due \in inputs.dues :
       LET c == [caller |-> caller, inGuild |-> inGuild, cached |-> cached,
                 assignee |-> assignee, priority |-> priority, due |-> due]
           l == [NoLocals EXCEPT !.idsAtStart = DOMAIN store]
       IN /\ cmd' = [cmd EXCEPT ![r] = c]
          /\ IF ~inGuild THEN Go(r, "reply_server", l)
             ELSE IF ~isAdmin(c, config) THEN Go(r, "reply_noperm", l)
             ELSE IF config.STAFF_CHANNEL_ID # Null THEN Go(r, "fetch_channel", l)
             ELSE Go(r, AfterChannel(c), [l EXCEPT !.warnings = Append(@, WarnChannelUnset)])
  /\ UNCHANGED <<clock, config, listed, lookup, call, profiles, store, replies, modals, acked, surfaceVars, handlerVars>>

\* a reply that ends execute: lines 186, 190, 225
ReplyAndReturn(r, label, kind, ok) ==
  /\ rpc[r] = label
  /\ IF ok THEN Go(r, "done", [rl[r] EXCEPT !.replied = TRUE]) /\ Say(r, Msg(kind))
           ELSE Go(r, "router_catch", rl[r]) /\ UNCHANGED replies
  /\ UNCHANGED <<clock, config, listed, lookup, call, profiles, store, cmd, modals, acked, surfaceVars, handlerVars>>

ReplyServer(r, ok) == ReplyAndReturn(r, "reply_server", "use_in_server", ok)
ReplyNoPermission(r, ok) == ReplyAndReturn(r, "reply_noperm", "no_permission", ok)
ReplyInvalidDate(r, ok) == ReplyAndReturn(r, "reply_invalid", "invalid_date", ok)

\* lines 201-213: guild.channels.fetch(staffChannelId)
FetchChannel(r, outcome) ==
  /\ rpc[r] = "fetch_channel"
  /\ LET l == CASE outcome = "text" -> [rl[r] EXCEPT !.channel = TRUE]
                  [] outcome = "other" -> [rl[r] EXCEPT !.warnings = Append(@, WarnChannelType)]
                  [] OTHER -> [rl[r] EXCEPT !.warnings = Append(@, WarnChannelFetch)]
       IN Go(r, AfterChannel(cmd[r]), l)
  /\ UNCHANGED <<clock, config, listed, lookup, call, profiles, store, cmd, replies, modals, acked, surfaceVars, handlerVars>>

\* line 145: interaction.showModal(modal)
ShowModal(r, ok) ==
  /\ rpc[r] = "show_modal"
  /\ IF ok THEN Go(r, "await_modal", [rl[r] EXCEPT !.replied = TRUE])
             ELSE Go(r, "modal_catch", rl[r])
  /\ UNCHANGED <<clock, config, listed, lookup, call, profiles, store, cmd, replies, modals, acked, surfaceVars, handlerVars>>

\* lines 147-150: a details form submitted by user u resolves every collector
\* whose filter accepts it (i.user.id === interaction.user.id)
SubmitForm(u) ==
  /\ \E r \in Runs : rpc[r] = "await_modal" /\ cmd[r].caller = u
  /\ modals' = modals + 1
  /\ rpc' = [r \in Runs |->
               IF rpc[r] = "await_modal" /\ cmd[r].caller = u THEN "modal_submitted" ELSE rpc[r]]
  /\ rl' = [r \in Runs |->
              IF rpc[r] = "await_modal" /\ cmd[r].caller = u
              THEN [rl[r] EXCEPT !.submitted = modals + 1] ELSE rl[r]]
  /\ UNCHANGED <<clock, config, listed, lookup, call, profiles, store, cmd, replies, acked, surfaceVars, handlerVars>>

\* lines 147-152: the 60 s window elapses; .catch(() => null); return null
ModalTimeout(r) ==
  /\ rpc[r] = "await_modal"
  /\ Go(r, "done", [rl[r] EXCEPT !.timedOut = TRUE])
  /\ UNCHANGED <<clock, config, listed, lookup, call, profiles, store, cmd, replies, modals, acked, surfaceVars, handlerVars>>

\* lines 154-168: the continuation builds the task from the clock
BuildTask(r) ==
  /\ rpc[r] = "modal_submitted"
  /\ Go(r, "create_task", [rl[r] EXCEPT !.task = <<NewTask(cmd[r], "title", "description", clock)>>])
  /\ UNCHANGED <<clock, config, listed, lookup, call, profiles, store, cmd, replies, modals, acked, surfaceVars, handlerVars>>

\* createTask's outcome ignored: the run goes on although nothing was stored
CreateTaskUnchecked(r, ok) ==
  /\ rpc[r] = "create_task"
  /\ LET task == rl[r].task[1]
       IN /\ store' = IF ok /\ CreateDocumentAccepts(store, task.task_id)
                        THEN createTask(store, task) ELSE store
          /\ Go(r, "defer_update", [rl[r] EXCEPT !.creates = @ + 1])
  /\ UNCHANGED <<clock, config, listed, lookup, call, profiles, cmd, replies, modals, acked, surfaceVars, handlerVars>>

\* line 170: createTask(task)
CreateTask(r, ok) ==
  /\ rpc[r] = "create_task"
  /\ LET task == rl[r].task[1]
       IN IF ok /\ CreateDocumentAccepts(store, task.task_id)
          THEN /\ store' = createTask(store, task)
               /\ Go(r, "defer_update", [rl[r] EXCEPT !.creates = @ + 1])
          ELSE /\ Go(r, "modal_catch", rl[r])
               /\ UNCHANGED store
  /\ UNCHANGED <<clock, config, listed, lookup, call, profiles, cmd, replies, modals, acked, surfaceVars, handlerVars>>

\* line 171: submitted.deferUpdate(); an interaction is acknowledged once
DeferUpdate(r, ok) ==
  /\ rpc[r] = "defer_update"
  /\ IF ok /\ rl[r].submitted \notin acked
       THEN /\ acked' = acked \cup {rl[r].submitted}
            /\ Go(r, "dm_send", rl[r])
       ELSE /\ Go(r, "modal_catch", rl[r])
            /\ UNCHANGED acked
  /\ UNCHANGED <<clock, config, listed, lookup, call, profiles, store, cmd, replies, modals, surfaceVars, handlerVars>>

\* lines 173-181: no call inside the try throws a collector error, so the
\* generic message is the one sent; followUp needs an interaction that was
\* responded to (here: by showModal)
ModalCatch(r, ok) ==
  /\ rpc[r] = "modal_catch"
  /\ IF ok /\ rl[r].replied THEN Go(r, "done", rl[r]) /\ Say(r, Msg("error_processing"))
             ELSE Go(r, "router_catch", rl[r]) /\ UNCHANGED replies
  /\ UNCHANGED <<clock, config, listed, lookup, call, profiles, store, cmd, modals, acked, surfaceVars, handlerVars>>

\* ids the transport gives to what a run publishes
DmMessageId(r) == <<"dm", r>>
ChannelMessageId(r) == <<"cm", r>>
ThreadId(r) == <<"th", r>>
AdminRoleMembers == {"u1"}

\* execute going to the pointer patch right after the DM attempt
AfterDmSkipsChannel(l) == "patch"

\* lines 272-276: after the DM attempt
AfterDm(l) == IF l.channel THEN "channel_send" ELSE "patch"

\* lines 260-270: assignee.createDM() and dm.send
DmSend(r, ok) ==
  /\ rpc[r] = "dm_send"
  /\ IF ok
       THEN /\ dm' = [dm EXCEPT ![r] = <<Payload(rl[r].task[1])>>]
            /\ Go(r, AfterDm(rl[r]), [rl[r] EXCEPT !.dmMessageId = DmMessageId(r)])
       ELSE /\ Go(r, AfterDm(rl[r]), [rl[r] EXCEPT !.dmFailed = TRUE])
            /\ UNCHANGED dm
  /\ UNCHANGED <<clock, config, listed, lookup, call, profiles, store, cmd, replies, modals, acked, chan, thread, handlerVars>>

\* lines 277-284 and 340-343: channel.send
ChannelSend(r, ok) ==
  /\ rpc[r] = "channel_send"
  /\ IF ok
       THEN /\ chan' = [chan EXCEPT ![r] = <<Payload(rl[r].task[1])>>]
            /\ Go(r, "thread_create", [rl[r] EXCEPT !.channelMessageId = ChannelMessageId(r),
                                                     !.channelId = StaffChannel])
       ELSE /\ Go(r, "patch", [rl[r] EXCEPT !.warnings = Append(@, WarnChannelSend)])
            /\ UNCHANGED chan
  /\ UNCHANGED <<clock, config, listed, lookup, call, profiles, store, cmd, replies, modals, acked, dm, thread, handlerVars>>

\* lines 287-295 and 336-339: channel.threads.create
ThreadCreate(r, ok) ==
  /\ rpc[r] = "thread_create"
  /\ IF ok
       THEN /\ thread' = [thread EXCEPT ![r] = <<[members |-> {}, lines |-> <<>>]>>]
            /\ Go(r, "add_assignee", [rl[r] EXCEPT !.threadId = ThreadId(r)])
       ELSE /\ Go(r, "patch", [rl[r] EXCEPT !.warnings = Append(@, WarnThread)])
            /\ UNCHANGED thread
  /\ UNCHANGED <<clock, config, listed, lookup, call, profiles, store, cmd, replies, modals, acked, dm, chan, handlerVars>>

\* thread.members.add(id), failure swallowed
AddMember(r, label, next, who, ok) ==
  /\ rpc[r] = label
  /\ thread' = [thread EXCEPT ![r] =
                    IF ok THEN <<[@[1] EXCEPT !.members = @ \cup who]>> ELSE @]
  /\ Go(r, next, rl[r])
  /\ UNCHANGED <<clock, config, listed, lookup, call, profiles, store, cmd, replies, modals, acked, dm, chan, handlerVars>>

\* line 298
AddAssignee(r, ok) == AddMember(r, "add_assignee", "add_admin", {cmd[r].assignee}, ok)
\* line 299
AddAdmin(r, ok) == AddMember(r, "add_admin", "add_role", {cmd[r].caller}, ok)
\* lines 301-318: every member of the admin role, each addition on its own
AddRoleMembers(r, added) ==
  /\ rpc[r] = "add_role"
  /\ thread' = [thread EXCEPT ![r] = <<[@[1] EXCEPT !.members = @ \cup added]>>]
  /\ Go(r, "thread_intro", rl[r])
  /\ UNCHANGED <<clock, config, listed, lookup, call, profiles, store, cmd, replies, modals, acked, dm, chan, handlerVars>>

\* lines 320-325; a failure lands in the thread-creation catch (336-339)
ThreadIntro(r, ok) ==
  /\ rpc[r] = "thread_intro"
  /\ IF ok
       THEN /\ thread' = [thread EXCEPT ![r] = <<[@[1] EXCEPT !.lines = Append(@, Msg("intro"))]>>]
            /\ Go(r, "channel_edit", rl[r])
       ELSE /\ Go(r, "patch", [rl[r] EXCEPT !.warnings = Append(@, WarnThread)])
            /\ UNCHANGED thread
  /\ UNCHANGED <<clock, config, listed, lookup, call, profiles, store, cmd, replies, modals, acked, dm, chan, handlerVars>>

\* lines 327-335: messages.fetch(sent.id) and channelMsg.edit, failure swallowed
ChannelEdit(r, ok) ==
  /\ rpc[r] = "channel_edit"
  /\ chan' = [chan EXCEPT ![r] =
                  IF ok THEN <<[Payload(rl[r].task[1]) EXCEPT !.threadLink = ThreadId(r)]>> ELSE @]
  /\ Go(r, "patch", rl[r])
  /\ UNCHANGED <<clock, config, listed, lookup, call, profiles, store, cmd, replies, modals, acked, dm, thread, handlerVars>>

\* the pointer patch leaving out the channel id
PointerPatchWithoutChannel(l) ==
  [dm_message_id |-> l.dmMessageId, channel_message_id |-> l.channelMessageId,
   channel_id |-> Null, thread_id |-> l.threadId]

\* the pointer patch carrying the status and progress the run created
PointerPatchWithSnapshot(l) ==
  [dm_message_id |-> l.dmMessageId, channel_message_id |-> l.channelMessageId,
   channel_id |-> l.channelId, thread_id |-> l.threadId,
   status |-> l.task[1].status, progress |-> l.task[1].progress]

\* lines 348-353: the mirror-pointer patch
PointerPatch(l) ==
  [dm_message_id |-> l.dmMessageId, channel_message_id |-> l.channelMessageId,
   channel_id |-> l.channelId, thread_id |-> l.threadId]

\* lines 346-353 and 362
Patch(r, ok) ==
  /\ rpc[r] = "patch"
  /\ LET id == rl[r].task[1].task_id
       IN IF ok /\ UpdateDocumentAccepts(store, id)
          THEN /\ store' = updateTask(store, id, PointerPatch(rl[r]), clock)
               /\ Go(r, "confirm", rl[r])
          ELSE /\ Go(r, "confirm_failed", rl[r])
               /\ UNCHANGED store
  /\ UNCHANGED <<clock, config, listed, lookup, call, profiles, cmd, replies, modals, acked, surfaceVars, handlerVars>>

\* the report of lines 355-361 (saved) and 364-370 (not saved)
Report(l, saved) ==
  [kind |-> "assigned", task_id |-> l.task[1].task_id, saved |-> saved,
   dmNote |-> l.dmFailed, warnings |-> l.warnings]

\* lines 355-361: a failed followUp lands in the catch of line 362
Confirm(r, ok) ==
  /\ rpc[r] = "confirm"
  /\ IF ok THEN Go(r, "done", rl[r]) /\ Say(r, Report(rl[r], TRUE))
             ELSE Go(r, "confirm_failed", rl[r]) /\ UNCHANGED replies
  /\ UNCHANGED <<clock, config, listed, lookup, call, profiles, store, cmd, modals, acked, surfaceVars, handlerVars>>

\* the catch of line 362 answering with the generic creation failure
ConfirmFailedGeneric(r, ok) ==
  /\ rpc[r] = "confirm_failed"
  /\ IF ok THEN Go(r, "done", rl[r]) /\ Say(r, Msg("failed_to_create"))
             ELSE Go(r, "outer_catch", rl[r]) /\ UNCHANGED replies
  /\ UNCHANGED <<clock, config, listed, lookup, call, profiles, store, cmd, modals, acked, surfaceVars, handlerVars>>

\* lines 362-371: a failed followUp lands in the catch of line 372
ConfirmFailed(r, ok) ==
  /\ rpc[r] = "confirm_failed"
  /\ IF ok THEN Go(r, "done", rl[r]) /\ Say(r, Report(rl[r], FALSE))
             ELSE Go(r, "outer_catch", rl[r]) /\ UNCHANGED replies
  /\ UNCHANGED <<clock, config, listed, lookup, call, profiles, store, cmd, modals, acked, surfaceVars, handlerVars>>

\* lines 372-378
OuterCatch(r, ok) ==
  /\ rpc[r] = "outer_catch"
  /\ IF ok THEN Go(r, "done", rl[r]) /\ Say(r, Msg("failed_to_create"))
             ELSE Go(r, "router_catch", rl[r]) /\ UNCHANGED replies
  /\ UNCHANGED <<clock, config, listed, lookup, call, profiles, store, cmd, modals, acked, surfaceVars, handlerVars>>

\* the listener's command catch without the enclosing try of lines 83-148
RouterCatchUnguarded(r, ok) ==
  /\ rpc[r] = "router_catch"
  /\ IF ok THEN Say(r, Msg("error_executing")) /\ Go(r, "done", rl[r])
           ELSE UNCHANGED replies /\ Go(r, "crashed", rl[r])
  /\ UNCHANGED <<clock, config, listed, lookup, call, profiles, store, cmd, modals, acked, surfaceVars, handlerVars>>

\* part_001 lines 98-115 and 146-148: the listener's catch; its own reply may
\* fail, which the outer try swallows
RouterCatch(r, ok) ==
  /\ rpc[r] = "router_catch"
  /\ IF ok THEN Say(r, Msg("error_executing")) ELSE UNCHANGED replies
  /\ Go(r, "done", rl[r])
  /\ UNCHANGED <<clock, config, listed, lookup, call, profiles, store, cmd, modals, acked, surfaceVars, handlerVars>>

\* the millisecond clock advances
Tick ==
  /\ clock < ClockStart + MaxTicks
  /\ clock' = clock + 1
  /\ UNCHANGED <<config, listed, lookup, call, profiles, store, runVars, surfaceVars, handlerVars>>

(***************************************************************************)
(* Update flow: handleComponent (assign-task.ts 382-464), reached from the *)
(* interaction listener for select menus whose customId starts with task:. *)
(***************************************************************************)
NoInteraction == [customId |-> <<>>, user |-> "u1", values |-> <<>>, message |-> <<>>]
NoHandlerLocals == [task |-> <<>>, updated |-> <<>>, deferred |-> FALSE, replied |-> FALSE]

\* customId.startsWith(prefix)
StartsWith(s, prefix) == Len(s) >= Len(prefix) /\ SubSeq(s, 1, Len(prefix)) = prefix

\* customId.split(':')
RECURSIVE Split(_, _)
Split(s, sep) ==
  IF \A i \in 1..Len(s) : s[i] # sep THEN <<s>>
  ELSE LET i == CHOOSE j \in 1..Len(s) : s[j] = sep /\ \A k \in 1..(j - 1) : s[k] # sep
       IN <<SubSeq(s, 1, i - 1)>> \o Split(SubSeq(s, i + 1, Len(s)), sep)

\* parts[n] of a JavaScript array: undefined (<<>>) past the end
Part(parts, n) == IF n <= Len(parts) THEN parts[n] ELSE <<>>
KindOf(i) == Part(Split(i.customId, ":"), 2)
TaskIdOf(i) == Part(Split(i.customId, ":"), 3)

\* the message a control sits on: <<"dm", r>> or <<"cm", r>>
SurfaceOf(m) == IF m[1] = "dm" THEN dm[m[2]] ELSE chan[m[2]]

HGo(h, label, locals) ==
  /\ hpc' = [hpc EXCEPT ![h] = label]
  /\ hl' = [hl EXCEPT ![h] = locals]

HSay(h, m) == hreplies' = [hreplies EXCEPT ![h] = Append(@, m)]

\* A user activates a selector of a published message.  The DM is seen by the
\* assignee only; the staff-channel post by every user.  part_001 121-127
\* routes the select menu here because its customId starts with task:.
Activate(h, inputs) ==
  /\ hpc[h] = "idle"
  /\ \E r \in Runs, where \in {"dm", "cm"}, user \in inputs.actors, sel \in {"progress", "status"} :
       LET surface == SurfaceOf(<<where, r>>)
       IN /\ surface # <<>>
          /\ surface[1].components # <<>>
          /\ where = "dm" => user = surface[1].embed.assigned_to
          /\ \E value \in (IF sel = "progress" THEN inputs.progress ELSE inputs.status) :
               /\ StartsWith(surface[1].components[sel], TaskPrefix)
               /\ hin' = [hin EXCEPT ![h] = [customId |-> surface[1].components[sel],
                                             user |-> user, values |-> <<value>>,
                                             message |-> <<where, r>>]]
  /\ HGo(h, "load", NoHandlerLocals)
  /\ UNCHANGED <<clock, config, listed, lookup, call, profiles, store, runVars, surfaceVars, hreplies>>

\* handleComponent without the assignee check
LoadUnchecked(h, ok) ==
  /\ hpc[h] = "load"
  /\ LET task == getTask(store, TaskIdOf(hin[h]), ok)
     IN HGo(h, IF task = <<>> THEN "reply_notfound" ELSE "defer", [hl[h] EXCEPT !.task = task])
  /\ UNCHANGED <<clock, config, listed, lookup, call, profiles, store, runVars, surfaceVars, hin, hreplies>>

\* lines 390-398: getTask, then the not-found and assignee checks
Load(h, ok) ==
  /\ hpc[h] = "load"
  /\ LET task == getTask(store, TaskIdOf(hin[h]), ok)
     IN HGo(h, IF task = <<>> THEN "reply_notfound"
               ELSE IF hin[h].user # task[1].assigned_to THEN "reply_notassignee"
               ELSE "defer",
            [hl[h] EXCEPT !.task = task])
  /\ UNCHANGED <<clock, config, listed, lookup, call, profiles, store, runVars, surfaceVars, hin, hreplies>>

\* interaction.reply, then return (lines 392-393, 396-397, 413-414);
\* reply throws on an interaction that was already deferred or replied to
ReplyAndStop(h, label, kind, ok) ==
  /\ hpc[h] = label
  /\ IF ok /\ ~hl[h].deferred /\ ~hl[h].replied
       THEN HGo(h, "done", [hl[h] EXCEPT !.replied = TRUE]) /\ HSay(h, Msg(kind))
       ELSE HGo(h, "router_catch", hl[h]) /\ UNCHANGED hreplies
  /\ UNCHANGED <<clock, config, listed, lookup, call, profiles, store, runVars, surfaceVars, hin>>

\* the not-found branch answering with the text of the assignee check
ReplyNotFoundAsForbidden(h, ok) == ReplyAndStop(h, "reply_notfound", "only_assignee", ok)

ReplyNotFound(h, ok) == ReplyAndStop(h, "reply_notfound", "task_not_found", ok)
ReplyNotAssignee(h, ok) == ReplyAndStop(h, "reply_notassignee", "only_assignee", ok)
ReplyDegraded(h, ok) == ReplyAndStop(h, "reply_degraded", "updated_not_refreshed", ok)

\* the flow going on to the update whether or not the interaction was acknowledged
DeferUnchecked(h, ok) ==
  /\ hpc[h] = "defer"
  /\ HGo(h, "mutate", [hl[h] EXCEPT !.deferred = ok])
  /\ UNCHANGED <<clock, config, listed, lookup, call, profiles, store, runVars, surfaceVars, hin, hreplies>>

\* line 401: interaction.deferUpdate()
Defer(h, ok) ==
  /\ hpc[h] = "defer"
  /\ IF ok THEN HGo(h, "mutate", [hl[h] EXCEPT !.deferred = TRUE])
           ELSE HGo(h, "router_catch", hl[h])
  /\ UNCHANGED <<clock, config, listed, lookup, call, profiles, store, runVars, surfaceVars, hin, hreplies>>

\* lines 403-409: the store after the mutation of this activation
Mutation(st, i, task, now) ==
  IF KindOf(i) = ProgressKind
    THEN updateTaskProgress(st, TaskIdOf(i), JSNumber(i.values[1]), task.status, now)
  ELSE IF KindOf(i) = StatusKind
    THEN updateTask(st, TaskIdOf(i), [status |-> i.values[1]], now)
  ELSE st

\* lines 403-409: updateTaskProgress / updateTask
Mutate(h, ok) ==
  /\ hpc[h] = "mutate"
  /\ IF ok /\ UpdateDocumentAccepts(store, TaskIdOf(hin[h]))
       THEN /\ store' = Mutation(store, hin[h], hl[h].task[1], clock)
            /\ HGo(h, "reload", hl[h])
       ELSE /\ HGo(h, "router_catch", hl[h])
            /\ UNCHANGED store
  /\ UNCHANGED <<clock, config, listed, lookup, call, profiles, runVars, surfaceVars, hin, hreplies>>

\* lines 411-415: the second getTask
Reload(h, ok) ==
  /\ hpc[h] = "reload"
  /\ LET updated == getTask(store, TaskIdOf(hin[h]), ok)
     IN HGo(h, IF updated = <<>> THEN "reply_degraded" ELSE "edit_reply",
            [hl[h] EXCEPT !.updated = updated])
  /\ UNCHANGED <<clock, config, listed, lookup, call, profiles, store, runVars, surfaceVars, hin, hreplies>>

\* message.edit({ embeds: [embed], components }) on a published message
EditSurface(m, payload) ==
  /\ dm' = IF m[1] = "dm" THEN [dm EXCEPT ![m[2]] = <<payload>>] ELSE dm
  /\ chan' = IF m[1] = "cm" THEN [chan EXCEPT ![m[2]] = <<payload>>] ELSE chan

\* lines 423-444: the mirrors to resynchronise, DM first
AfterEditReply(updated) ==
  IF updated.dm_message_id # Null THEN "dm_sync"
  ELSE IF updated.channel_id # Null /\ updated.channel_message_id # Null THEN "chan_sync"
  ELSE IF updated.thread_id # Null THEN "audit"
  ELSE "done"

AfterDmSync(updated) ==
  IF updated.channel_id # Null /\ updated.channel_message_id # Null THEN "chan_sync"
  ELSE IF updated.thread_id # Null THEN "audit"
  ELSE "done"

AfterChanSync(updated) == IF updated.thread_id # Null THEN "audit" ELSE "done"

\* lines 417-421: interaction.editReply on the message the control sits on
EditReply(h, ok) ==
  /\ hpc[h] = "edit_reply"
  /\ IF ok THEN /\ EditSurface(hin[h].message, Payload(hl[h].updated[1]))
                /\ HGo(h, AfterEditReply(hl[h].updated[1]), hl[h])
           ELSE /\ HGo(h, "router_catch", hl[h])
                /\ UNCHANGED <<dm, chan>>
  /\ UNCHANGED <<clock, config, listed, lookup, call, profiles, store, runVars, thread, hin, hreplies>>

\* lines 424-432: createDM, messages.fetch(dm_message_id), msg.edit
DmSync(h, ok) ==
  /\ hpc[h] = "dm_sync"
  /\ IF ok THEN EditSurface(hl[h].updated[1].dm_message_id, Payload(hl[h].updated[1]))
           ELSE UNCHANGED <<dm, chan>>
  /\ HGo(h, AfterDmSync(hl[h].updated[1]), hl[h])
  /\ UNCHANGED <<clock, config, listed, lookup, call, profiles, store, runVars, thread, hin, hreplies>>

\* lines 434-444: channels.fetch, messages.fetch(channel_message_id), msg.edit
ChanSync(h, ok) ==
  /\ hpc[h] = "chan_sync"
  /\ IF ok THEN EditSurface(hl[h].updated[1].channel_message_id, Payload(hl[h].updated[1]))
           ELSE UNCHANGED <<dm, chan>>
  /\ HGo(h, AfterChanSync(hl[h].updated[1]), hl[h])
  /\ UNCHANGED <<clock, config, listed, lookup, call, profiles, store, runVars, thread, hin, hreplies>>

\* lines 452-457: the audit line
AuditLine(i, task, updated) ==
  IF KindOf(i) = ProgressKind
    THEN [kind |-> "progress", before |-> JSString(task.progress),
          after |-> JSString(updated.progress), actor |-> i.user]
    ELSE [kind |-> "status", before |-> task.status, after |-> updated.status,
          actor |-> i.user]

\* lines 446-463: channels.fetch(thread_id) and th.send, failure swallowed
Audit(h, ok) ==
  /\ hpc[h] = "audit"
  /\ LET t == hl[h].updated[1].thread_id[2]
     IN thread' = IF ok /\ thread[t] # <<>>
                    THEN [thread EXCEPT ![t] = <<[@[1] EXCEPT !.lines =
                            Append(@, AuditLine(hin[h], hl[h].task[1], hl[h].updated[1]))]>>]
                    ELSE thread
  /\ HGo(h, "done", hl[h])
  /\ UNCHANGED <<clock, config, listed, lookup, call, profiles, store, runVars, dm, chan, hin, hreplies>>

\* part_001 lines 129-144: the listener's catch.  After deferUpdate, editReply
\* rewrites the message the control sits on; its own failure is swallowed
\* (lines 146-148).
Wiped == [embed |-> <<>>, components |-> <<>>, threadLink |-> Null]

HandlerRouterCatch(h, ok) ==
  /\ hpc[h] = "router_catch"
  /\ IF hl[h].replied \/ hl[h].deferred
       THEN /\ IF ok THEN EditSurface(hin[h].message, Wiped) ELSE UNCHANGED <<dm, chan>>
            /\ UNCHANGED hreplies
       ELSE /\ IF ok THEN HSay(h, Msg("error_processing_interaction")) ELSE UNCHANGED hreplies
            /\ UNCHANGED <<dm, chan>>
  /\ HGo(h, "done", hl[h])
  /\ UNCHANGED <<clock, config, listed, lookup, call, profiles, store, runVars, thread, hin>>

\* what the selectors offer, and values only a forged interaction carries
CraftedProgress == { <<"1","5","0">>, <<"a","b","c">> }
CraftedStatus == {"archived"}

\* ---------------------------------------------------------------------
\* services/bloxlink (src/src/client.ts lines 34-326)

\* candidate URLs tried by one fetchLookup
MaxEndpoints == 2

\* line 255: retries of pRetry; the lookup runs at most Retries + 1 times
Retries == 3

\* lines 137-210: the candidate URLs, numbered in the order they are tried
Endpoints == 1..MaxEndpoints

\* JSON bodies of the lookup service: a username, an id only, neither
LookupBodies == {[robloxUsername |-> "Builder", robloxID |-> "77"],
                 [robloxID |-> "77"],
                 [error |-> "not linked"]}

\* JSON bodies of the Roblox users endpoint: with and without a name
RobloxBodies == {[name |-> "builder"], [id |-> "77"]}

\* what one HTTP exchange can give: fetch rejecting, a status without
\* usable body, or status 200 with a body that parses (<<body>>) or not
AnswersWith(bodies) ==
  {[rejects |-> TRUE, status |-> 0, json |-> <<>>]} \cup
  {[rejects |-> FALSE, status |-> s, json |-> <<>>] : s \in {404, 429, 500, 200}} \cup
  {[rejects |-> FALSE, status |-> 200, json |-> <<b>>] : b \in bodies}

\* lines 103-130: mapLookup (text is a sequence of fragments)
mapLookup(data) ==
  LET username == IF "robloxUsername" \in DOMAIN data THEN <<<<data.robloxUsername>>>> ELSE <<>>
      robloxId == IF "robloxID" \in DOMAIN data THEN <<data.robloxID>> ELSE <<>>
  IN [linked |-> username # <<>> \/ robloxId # <<>>,
      robloxUsername |-> username, robloxId |-> robloxId]

\* errors raised inside the lookup
NetworkError == [app |-> FALSE, code |-> "fetch failed", status |-> 0]
SyntaxError == [app |-> FALSE, code |-> "SyntaxError", status |-> 0]
RateLimited == [app |-> TRUE, code |-> "BLOXLINK_429", status |-> 429]
BloxlinkError(status) == [app |-> TRUE, code |-> "BLOXLINK_ERROR", status |-> status]
LookupFailed == [app |-> TRUE, code |-> "BLOXLINK_FAILED", status |-> 0]

NoLookup == [pc |-> "idle", fn |-> "", discordId |-> Null, attempt |-> 0, at |-> 0,
             all404 |-> TRUE, lastErr |-> <<>>, thrown |-> <<>>, robloxId |-> <<>>,
             result |-> Null, info |-> <<>>]

\* lines 295, 301, 303-305: the value getRobloxInfo returns
RobloxInfo(username, id) ==
  [username |-> username, id |-> id, linked |-> username # Null \/ id # Null]

InfoReturn(l, username, id) ==
  [l EXCEPT !.pc = "returned", !.info = <<RobloxInfo(username, id)>>]

\* line 271: the fallback text
RobloxIdLabel(id) == <<"Roblox ID: ", id>>

\* getRobloxUsername returning a value
LookupReturn(l, value) == [l EXCEPT !.pc = "returned", !.result = value]

\* getRobloxUsername without its catch clause: the error leaves the function
LookupCatchRethrows(l, err) == [l EXCEPT !.pc = "threw", !.thrown = <<err>>]

\* lines 274-278: every error raised inside the try block becomes null
LookupCatch(l, err) ==
  IF l.fn = "getRobloxInfo"
    THEN [InfoReturn(l, Null, Null) EXCEPT !.thrown = <<err>>]
    ELSE [l EXCEPT !.pc = "returned", !.thrown = <<err>>, !.result = Null]

\* lines 263-273 and 295-301: what getRobloxUsername and getRobloxInfo do
\* with the lookup's result
AfterLookup(l, mapped) ==
  IF l.fn = "getRobloxInfo"
    THEN IF ~mapped.linked THEN InfoReturn(l, Null, Null)
         ELSE IF mapped.robloxUsername = <<>> /\ mapped.robloxId # <<>>
              THEN [l EXCEPT !.pc = "resolve", !.robloxId = mapped.robloxId]
         ELSE InfoReturn(l, mapped.robloxUsername, mapped.robloxId)
  ELSE IF ~mapped.linked THEN LookupReturn(l, Null)
  ELSE IF mapped.robloxUsername # <<>> THEN LookupReturn(l, mapped.robloxUsername)
  ELSE IF mapped.robloxId # <<>>
       THEN [l EXCEPT !.pc = "resolve", !.robloxId = mapped.robloxId]
  ELSE LookupReturn(l, Null)

\* lines 212-248: the candidate after a failed one, or the end of the loop
NextCandidate(l) ==
  IF l.at < MaxEndpoints THEN [l EXCEPT !.at = l.at + 1]
  ELSE IF l.all404 THEN AfterLookup(l, [linked |-> FALSE, robloxUsername |-> <<>>, robloxId |-> <<>>])
  ELSE IF l.lastErr # <<>> /\ l.lastErr[1].app
       THEN [l EXCEPT !.pc = "failed", !.thrown = l.lastErr]
  ELSE [l EXCEPT !.pc = "failed", !.thrown = <<LookupFailed>>]

\* lines 214-244: one iteration of the loop over the candidates
AfterRequest(l, answer) ==
  IF answer.rejects THEN NextCandidate([l EXCEPT !.lastErr = <<NetworkError>>])
  ELSE IF answer.status = 404 THEN NextCandidate(l)
  ELSE IF answer.status = 429
       THEN NextCandidate([l EXCEPT !.all404 = FALSE, !.lastErr = <<RateLimited>>])
  ELSE IF answer.status # 200
       THEN NextCandidate([l EXCEPT !.all404 = FALSE, !.lastErr = <<BloxlinkError(answer.status)>>])
  ELSE IF answer.json = <<>>
       THEN NextCandidate([l EXCEPT !.all404 = FALSE, !.lastErr = <<SyntaxError>>])
  ELSE AfterLookup([l EXCEPT !.all404 = FALSE], mapLookup(answer.json[1]))

\* lines 251-254: the call, and the first run of fetchLookup
GetRobloxUsername(discordId) ==
  /\ lookup.pc = "idle"
  /\ lookup' = [NoLookup EXCEPT !.pc = "request", !.fn = "getRobloxUsername",
                                !.discordId = discordId, !.attempt = 1, !.at = 1]
  /\ UNCHANGED <<clock, config, listed, call, profiles, store, runVars, surfaceVars, handlerVars>>

\* lines 282-286: getRobloxInfo, and the first run of fetchLookup
GetRobloxInfo(discordId) ==
  /\ lookup.pc = "idle"
  /\ lookup' = [NoLookup EXCEPT !.pc = "request", !.fn = "getRobloxInfo",
                                !.discordId = discordId, !.attempt = 1, !.at = 1]
  /\ UNCHANGED <<clock, config, listed, call, profiles, store, runVars, surfaceVars, handlerVars>>

\* line 216: requestJson for the current candidate is answered
Request(answer) ==
  /\ lookup.pc = "request"
  /\ lookup' = AfterRequest(lookup, answer)
  /\ UNCHANGED <<clock, config, listed, call, profiles, store, runVars, surfaceVars, handlerVars>>

\* pRetry running the lookup again after every failure
RetryAlways ==
  /\ lookup.pc = "failed"
  /\ lookup' = [lookup EXCEPT !.pc = "request", !.attempt = lookup.attempt + 1,
                              !.at = 1, !.all404 = TRUE, !.lastErr = <<>>, !.thrown = <<>>]
  /\ UNCHANGED <<clock, config, listed, call, profiles, store, runVars, surfaceVars, handlerVars>>

\* lines 254-262 and 286-294: pRetry after a run of fetchLookup has thrown
RetryOrGiveUp ==
  /\ lookup.pc = "failed"
  /\ LET err == lookup.thrown[1]
     IN lookup' =
          IF err.status = 404 THEN LookupCatch(lookup, err)
          ELSE IF lookup.attempt <= Retries
               THEN [lookup EXCEPT !.pc = "request", !.attempt = lookup.attempt + 1,
                                   !.at = 1, !.all404 = TRUE, !.lastErr = <<>>,
                                   !.thrown = <<>>]
          ELSE LookupCatch(lookup, err)
  /\ UNCHANGED <<clock, config, listed, call, profiles, store, runVars, surfaceVars, handlerVars>>

\* lines 310-326: resolveRobloxUsername
resolveRobloxUsername(answer) ==
  IF answer.rejects THEN Null
  ELSE IF answer.status # 200 THEN Null
  ELSE IF answer.json = <<>> THEN Null
  ELSE IF "name" \in DOMAIN answer.json[1] THEN <<<<answer.json[1].name>>>>
  ELSE Null

\* lines 267-272 and 298-300: the username is resolved from the Roblox id
Resolve(answer) ==
  /\ lookup.pc = "resolve"
  /\ LET resolved == resolveRobloxUsername(answer)
     IN lookup' = IF lookup.fn = "getRobloxInfo"
                    THEN InfoReturn(lookup, resolved, lookup.robloxId)
                  ELSE IF resolved # Null THEN LookupReturn(lookup, resolved)
                  ELSE LookupReturn(lookup, <<RobloxIdLabel(lookup.robloxId[1])>>)
  /\ UNCHANGED <<clock, config, listed, call, profiles, store, runVars, surfaceVars, handlerVars>>

\* every command the platform can deliver
AllInputs == [callers |-> Users, inGuild |-> BOOLEAN, cached |-> BOOLEAN,
              assignees |-> Assignees, priorities |-> Priorities, dues |-> DueInputs]

\* one step of a creation run on the given commands; every awaited call may fail
CreationStepOn(r, inputs) ==
  \/ IssueCommand(r, inputs)
  \/ \E outcome \in {"text", "other", "throw"} : FetchChannel(r, outcome)
  \/ ModalTimeout(r)
  \/ BuildTask(r)
  \/ \E added \in SUBSET AdminRoleMembers : AddRoleMembers(r, added)
  \/ \E ok \in BOOLEAN :
       \/ ReplyServer(r, ok) \/ ReplyNoPermission(r, ok) \/ ReplyInvalidDate(r, ok)
       \/ ShowModal(r, ok) \/ CreateTask(r, ok) \/ DeferUpdate(r, ok) \/ ModalCatch(r, ok)
       \/ DmSend(r, ok) \/ ChannelSend(r, ok) \/ ThreadCreate(r, ok)
       \/ AddAssignee(r, ok) \/ AddAdmin(r, ok) \/ ThreadIntro(r, ok) \/ ChannelEdit(r, ok)
       \/ Patch(r, ok) \/ Confirm(r, ok) \/ ConfirmFailed(r, ok) \/ OuterCatch(r, ok)
       \/ RouterCatch(r, ok)

\* one step of a creation run on any command the platform can deliver
CreationStep(r) == CreationStepOn(r, AllInputs)

Init ==
  /\ clock = ClockStart
  /\ config \in Configs
  /\ store = <<>>
  /\ rpc = [r \in Runs |-> "idle"]
  /\ cmd = [r \in Runs |-> NoCmd]
  /\ rl = [r \in Runs |-> NoLocals]
  /\ replies = [r \in Runs |-> <<>>]
  /\ modals = 0
  /\ acked = {}
  /\ dm = [r \in Runs |-> <<>>]
  /\ chan = [r \in Runs |-> <<>>]
  /\ thread = [r \in Runs |-> <<>>]
  /\ hpc = [h \in Handlers |-> "idle"]
  /\ hin = [h \in Handlers |-> NoInteraction]
  /\ hl = [h \in Handlers |-> NoHandlerLocals]
  /\ hreplies = [h \in Handlers |-> <<>>]
  /\ listed = <<>>
  /\ lookup = NoLookup
  /\ call = <<>>
  /\ profiles = <<>>

vars == <<clock, config, store, runVars, surfaceVars, handlerVars, listed, lookup, call, profiles>>

SoloRun == {1}

\* Spec: one creation command, every awaited call may fail
Next ==
  \/ \E r \in SoloRun : CreationStep(r)
  \/ \E u \in Users : SubmitForm(u)
  \/ Tick

Spec == Init /\ [][Next]_vars

(***************************************************************************)
(* Scenario specifications.  They run the same actions with the transport  *)
(* answering, so that several flows fit in the state space together.       *)
(***************************************************************************)
ValidDue == <<"2","0","2","5","-","0","1","-","0","1">>

\* SpecPair: concurrent creation commands of one administrator, no staff
\* channel configured; the store and the acknowledgement of the form may
\* fail, the form may be abandoned
PairInputs == [callers |-> {"u1"}, inGuild |-> {TRUE}, cached |-> {TRUE},
               assignees |-> Assignees, priorities |-> Priorities, dues |-> {ValidDue}]

NextPair ==
  \/ \E r \in Runs :
       \/ IssueCommand(r, PairInputs)
       \/ ShowModal(r, TRUE)
       \/ ModalTimeout(r)
       \/ BuildTask(r)
       \/ ModalCatch(r, TRUE)
       \/ DmSend(r, TRUE)
       \/ ConfirmFailed(r, TRUE)
       \/ \E ok \in BOOLEAN :
            CreateTask(r, ok) \/ DeferUpdate(r, ok) \/ Patch(r, ok) \/ Confirm(r, ok)
  \/ \E u \in Users : SubmitForm(u)
  \/ Tick

InitPair == Init /\ config = [STAFF_CHANNEL_ID |-> Null, STAFF_ROLE_IDS |-> {}]

SpecPair == InitPair /\ [][NextPair]_vars

\* a creation run in which every call is answered
QuietCreationStep(r, inputs) ==
  \/ IssueCommand(r, inputs)
  \/ FetchChannel(r, "text")
  \/ ShowModal(r, TRUE)
  \/ BuildTask(r)
  \/ CreateTask(r, TRUE) \/ DeferUpdate(r, TRUE)
  \/ DmSend(r, TRUE) \/ ChannelSend(r, TRUE) \/ ThreadCreate(r, TRUE)
  \/ AddAssignee(r, TRUE) \/ AddAdmin(r, TRUE) \/ AddRoleMembers(r, AdminRoleMembers)
  \/ ThreadIntro(r, TRUE) \/ ChannelEdit(r, TRUE)
  \/ Patch(r, TRUE) \/ Confirm(r, TRUE)

UpdateInputs == [callers |-> {"u1"}, inGuild |-> {TRUE}, cached |-> {TRUE},
                 assignees |-> {"u2"}, priorities |-> {"high"}, dues |-> {ValidDue}]

\* the steps of a control activation in which every call is answered
QuietHandlerStep(h) ==
  \/ Load(h, TRUE) \/ ReplyNotAssignee(h, TRUE) \/ Defer(h, TRUE) \/ Mutate(h, TRUE)
  \/ Reload(h, TRUE) \/ EditReply(h, TRUE) \/ DmSync(h, TRUE) \/ ChanSync(h, TRUE)
  \/ Audit(h, TRUE)

InitUpdate == Init /\ config.STAFF_ROLE_IDS = {}

\* SpecSerial: one task is created and its selectors are activated one
\* activation after the other, also while the creation run is still
\* publishing; the values are the offered ones and forged ones
SerialInputs == [actors |-> {"u2", "u3"},
                 progress |-> ProgressOptions \cup CraftedProgress,
                 status |-> StatusOptions \cup CraftedStatus]

ActivateSerially(h) ==
  /\ \A g \in 1..(h - 1) : hpc[g] = "done"
  /\ Activate(h, SerialInputs)

NextSerial ==
  \/ \E r \in SoloRun : QuietCreationStep(r, UpdateInputs)
  \/ \E u \in Users : SubmitForm(u)
  \/ \E h \in Handlers : ActivateSerially(h) \/ QuietHandlerStep(h)

SpecSerial == InitUpdate /\ [][NextSerial]_vars

\* SpecUpdate: one task is created and its selectors are activated by
\* concurrent interactions (numbered in the order they arrive)
ConcurrentInputs == [actors |-> {"u2", "u3"},
                     progress |-> { <<"2","5">>, <<"1","0","0">> },
                     status |-> {"in_progress", "done"}]

ActivateConcurrently(h) ==
  /\ \A g \in 1..(h - 1) : hpc[g] # "idle"
  /\ Activate(h, ConcurrentInputs)

NextUpdate ==
  \/ \E r \in SoloRun : QuietCreationStep(r, UpdateInputs)
  \/ \E u \in Users : SubmitForm(u)
  \/ \E h \in Handlers : ActivateConcurrently(h) \/ QuietHandlerStep(h)

SpecUpdate == InitUpdate /\ [][NextUpdate]_vars

\* the steps of a control activation; every awaited call may fail
FaultyHandlerStep(h) ==
  \E ok \in BOOLEAN :
    \/ Load(h, ok) \/ ReplyNotFound(h, ok) \/ ReplyNotAssignee(h, ok) \/ Defer(h, ok)
    \/ Mutate(h, ok) \/ Reload(h, ok) \/ ReplyDegraded(h, ok) \/ EditReply(h, ok)
    \/ DmSync(h, ok) \/ ChanSync(h, ok) \/ Audit(h, ok) \/ HandlerRouterCatch(h, ok)

\* SpecFault: one task is created with the transport answering, and its
\* selectors are activated one activation after the other while the store
\* and the transport may fail under every call of handleComponent
FaultInputs == [actors |-> {"u2", "u3"},
                progress |-> { <<"5","0">> },
                status |-> {"done"}]

ActivateUnderFaults(h) ==
  /\ \A g \in 1..(h - 1) : hpc[g] = "done"
  /\ Activate(h, FaultInputs)

NextFault ==
  \/ \E r \in SoloRun : QuietCreationStep(r, UpdateInputs)
  \/ \E u \in Users : SubmitForm(u)
  \/ \E h \in Handlers : ActivateUnderFaults(h) \/ FaultyHandlerStep(h)

SpecFault == InitUpdate /\ [][NextFault]_vars

\* the steps of a control activation with the transport answering every
\* call and the store's reads (getTask) able to fail
ReadFaultStep(h) ==
  \/ \E ok \in BOOLEAN : Load(h, ok) \/ Reload(h, ok)
  \/ ReplyNotFound(h, TRUE) \/ ReplyNotAssignee(h, TRUE) \/ Defer(h, TRUE)
  \/ Mutate(h, TRUE) \/ ReplyDegraded(h, TRUE) \/ EditReply(h, TRUE)
  \/ DmSync(h, TRUE) \/ ChanSync(h, TRUE) \/ Audit(h, TRUE) \/ HandlerRouterCatch(h, TRUE)

\* SpecReload: one task is created and its selectors are activated one
\* activation after the other; only the reads of the store may fail
NextReload ==
  \/ \E r \in SoloRun : QuietCreationStep(r, UpdateInputs)
  \/ \E u \in Users : SubmitForm(u)
  \/ \E h \in Handlers : ActivateUnderFaults(h) \/ ReadFaultStep(h)

SpecReload == InitUpdate /\ [][NextReload]_vars

\* SpecCrash: one creation command and one activation of its selectors,
\* with the store and the transport able to fail under every awaited call
\* of execute, showTaskModal, handleComponent and the listener's own catch
SoloActivation == {1}

CrashInputs == [callers |-> {"u1"}, inGuild |-> BOOLEAN, cached |-> {TRUE},
                assignees |-> {"u2"}, priorities |-> {"high"}, dues |-> {ValidDue}]

NextCrash ==
  \/ \E r \in SoloRun : CreationStepOn(r, CrashInputs)
  \/ \E u \in Users : SubmitForm(u)
  \/ \E h \in SoloActivation : ActivateUnderFaults(h) \/ FaultyHandlerStep(h)

SpecCrash == InitUpdate /\ [][NextCrash]_vars

\* SpecFrame: one task is created and its selectors are activated one
\* activation after the other while the clock advances; every call is answered
NextFrame ==
  \/ \E r \in SoloRun : QuietCreationStep(r, UpdateInputs)
  \/ \E u \in Users : SubmitForm(u)
  \/ \E h \in Handlers : ActivateUnderFaults(h) \/ QuietHandlerStep(h)
  \/ Tick

SpecFrame == InitUpdate /\ [][NextFrame]_vars

\* a task stored by an earlier run of the command, in this guild or another
\* one; every run reads a later clock
OtherGuild == <<"8","0","0","0","0","0","2">>

StoredEarlier(assignee, guild, now) ==
  [NewTask([NoCmd EXCEPT !.assignee = assignee, !.due = ValidDue], "title", "description", now)
     EXCEPT !.guild_id = guild, !.task_id = NewTaskId(guild, now)]

IsOther(doc) == doc.assigned_to # "u2" \/ doc.guild_id # GuildId

SeedTask ==
  /\ listed = <<>>
  /\ Cardinality(DOMAIN store) < MaxStored
  /\ \E assignee \in Assignees, guild \in {GuildId, OtherGuild} :
       LET doc == StoredEarlier(assignee, guild, clock)
       IN /\ IsOther(doc) => Cardinality({id \in DOMAIN store : IsOther(store[id])}) < MaxOthers
          /\ CreateDocumentAccepts(store, doc.task_id)
          /\ store' = createTask(store, doc)
  /\ clock' = clock + 1
  /\ UNCHANGED <<config, listed, lookup, call, profiles, runVars, surfaceVars, handlerVars>>

\* part_002 line 273: the task panel lists the tasks of a member
ListTasks(ok) ==
  /\ listed = <<>>
  /\ \E u \in Assignees, g \in {GuildId, OtherGuild} :
       listed' = <<[user |-> u, guild |-> g, ok |-> ok, tasks |-> listUserTasks(store, u, g, ok)]>>
  /\ UNCHANGED <<clock, config, lookup, call, profiles, store, runVars, surfaceVars, handlerVars>>

\* SpecList: tasks accumulate in the store, then the task panel lists them
NextList ==
  \/ SeedTask
  \/ \E ok \in BOOLEAN : ListTasks(ok)

SpecList == InitPair /\ [][NextList]_vars

\* SpecLookup: usernames are looked up, one call after the other; every
\* HTTP exchange can go any way
NextLookup ==
  \/ \E u \in Users : GetRobloxUsername(u) \/ GetRobloxInfo(u)
  \/ \E answer \in AnswersWith(LookupBodies) : Request(answer)
  \/ RetryOrGiveUp
  \/ \E answer \in AnswersWith(RobloxBodies) : Resolve(answer)

SpecLookup == Init /\ [][NextLookup]_vars

\* SpecBounded: either one account lookup runs, every HTTP exchange going
\* any way, or one creation command and one activation of its selectors run
\* with every awaited call able to fail
WorkflowIdle == (\A r \in Runs : rpc[r] = "idle") /\ (\A h \in Handlers : hpc[h] = "idle")

NextBounded ==
  \/ /\ WorkflowIdle
     /\ \/ \E u \in Users : GetRobloxUsername(u) \/ GetRobloxInfo(u)
        \/ \E answer \in AnswersWith(LookupBodies) : Request(answer)
        \/ RetryOrGiveUp
        \/ \E answer \in AnswersWith(RobloxBodies) : Resolve(answer)
  \/ /\ lookup.pc = "idle"
     /\ \/ \E r \in SoloRun : CreationStepOn(r, CrashInputs)
        \/ \E u \in Users : SubmitForm(u)
        \/ \E h \in SoloActivation : ActivateUnderFaults(h) \/ FaultyHandlerStep(h)

SpecBounded == InitUpdate /\ [][NextBounded]_vars

\* ---------------------------------------------------------------------
\* The task functions of appwrite.ts called directly, by any caller

\* ids of tasks that are or could be stored: one per reading of the clock
CandidateIds == {NewTaskId(GuildId, t) : t \in ClockStart..(ClockStart + MaxTicks)}

\* patches the callers of updateTask hand over (assign-task.ts 346-353, 403-409)
CallerPatches ==
  {[progress |-> <<50>>, status |-> "assigned"], [status |-> "done"],
   [dm_message_id |-> DmMessageId(1), channel_message_id |-> Null,
    channel_id |-> Null, thread_id |-> Null]}

\* createTask(task) with the task showTaskModal builds at this time
CallCreateTask(ok) ==
  /\ LET task == NewTask([NoCmd EXCEPT !.due = ValidDue], "title", "description", clock)
         stored == ok /\ CreateDocumentAccepts(store, task.task_id)
     IN /\ store' = IF stored THEN createTask(store, task) ELSE store
        /\ call' = <<[op |-> "createTask", id |-> task.task_id, threw |-> ~stored]>>
  /\ UNCHANGED <<clock, config, listed, lookup, profiles, runVars, surfaceVars, handlerVars>>

\* updateTask(taskId, patch): rethrows what updateDocument throws
CallUpdateTask(id, patch, ok) ==
  /\ LET stored == ok /\ UpdateDocumentAccepts(store, id)
     IN /\ store' = IF stored THEN updateTask(store, id, patch, clock) ELSE store
        /\ call' = <<[op |-> "updateTask", id |-> id, threw |-> ~stored]>>
  /\ UNCHANGED <<clock, config, listed, lookup, profiles, runVars, surfaceVars, handlerVars>>

\* SpecStore: tasks are created and updated through appwrite.ts while the
\* clock advances; updates are addressed to stored and to absent ids
NextStore ==
  \/ \E ok \in BOOLEAN : CallCreateTask(ok)
  \/ \E id \in CandidateIds, patch \in CallerPatches, ok \in BOOLEAN : CallUpdateTask(id, patch, ok)
  \/ Tick

SpecStore == InitPair /\ [][NextStore]_vars

\* ---------------------------------------------------------------------
\* The router for component interactions (part_001 lines 116-128)

\* customIds of the info panel (part_002 lines 34-68, 316)
InfoPanelIds ==
  {<<"m","y","i","n","f","o","_","r","e","f","r","e","s","h">>,
   <<"m","y","i","n","f","o","_","b","a","c","k">>,
   <<"m","y","i","n","f","o","_","s","e","r","v","e","r">>,
   <<"m","y","i","n","f","o","_","t","a","s","k","_","p","a","n","e","l">>,
   <<"m","y","i","n","f","o","_","a","c","t","i","o","n","s">>,
   <<"m","y","i","n","f","o","_","t","a","s","k","_","s","e","l","e","c","t">>}

\* identifiers no component of the program carries
ForeignIds ==
  {<<"t","a","s","k">>,
   <<"t","a","s","k",":">>,
   <<"T","a","s","k",":","p","r","o","g","r","e","s","s",":","x">>,
   <<"x","t","a","s","k",":","s","t","a","t","u","s",":","x">>,
   <<"t","a","s","k","s",":","x">>,
   <<"t","a","s","k","_","s","e","l","e","c","t">>,
   <<>>}

\* task ids showTaskModal can generate: guild prefix, "-", base-36 time
GeneratedIds ==
  {NewTaskId(g, t) : g \in {GuildId, OtherGuild}, t \in ClockStart..(ClockStart + MaxTicks)}

\* the customIds buildControls gives the selectors of the generated tasks
ControlIds ==
  UNION {{buildControls(id).progress, buildControls(id).status} : id \in GeneratedIds}

\* a task selector id arriving on a button is routed like a select menu's
RouteIgnoringComponent(component, cid) ==
  IF StartsWith(cid, TaskPrefix) THEN "handleTaskComponent" ELSE "handleComponent"

\* part_001 lines 116-128: the handler a component interaction is given to
Route(component, cid) ==
  IF component = "button" THEN "handleComponent"
  ELSE IF StartsWith(cid, TaskPrefix) THEN "handleTaskComponent"
  ELSE "handleComponent"

\* a button or a select menu is activated; the task handler splits the
\* customId (assign-task.ts lines 383-387)
Dispatch(component, cid) ==
  /\ call = <<>>
  /\ LET handler == Route(component, cid)
         parsed == handler = "handleTaskComponent" /\ StartsWith(cid, TaskPrefix)
     IN call' = <<[op |-> "dispatch", component |-> component, customId |-> cid,
                   handler |-> handler,
                   kind |-> IF parsed THEN KindOf([customId |-> cid]) ELSE <<>>,
                   taskId |-> IF parsed THEN TaskIdOf([customId |-> cid]) ELSE <<>>]>>
  /\ UNCHANGED <<clock, config, listed, lookup, profiles, store, runVars, surfaceVars, handlerVars>>

\* SpecDispatch: one component interaction arrives, at any time and under
\* any configuration
NextDispatch ==
  \/ \E component \in {"button", "select"}, cid \in InfoPanelIds \cup ForeignIds \cup ControlIds :
       Dispatch(component, cid)
  \/ Tick

SpecDispatch == Init /\ [][NextDispatch]_vars


\* ---------------------------------------------------------------------
\* The profile functions of appwrite.ts called directly, by any caller

\* appwrite.ts 176, 454, 477: characters of each id that enter the document id
ProfileKeyLen == 8

\* Discord ids of two users who registered within the same seconds: they
\* differ in the ninth digit only
ProfileUsers == { <<"1","0","0","0","0","0","0","0","1">>,
                  <<"1","0","0","0","0","0","0","0","2">> }
ProfileGuilds == {GuildId, OtherGuild}
\* a time zone name as a value that may be null: <<name>>, or Null
Timezones == { <<"UTC">>, <<"Europe/Paris">> }

\* lines 176, 454, 477
ProfileDocId(discordId, guildId) ==
  Slice0(guildId, ProfileKeyLen) \o Slice0(discordId, ProfileKeyLen)

\* lines 177-199: getDocument and the coercion; any failure gives null.
\* Texts are sequences of characters, the empty text and null both <<>>;
\* last_seen_at is written by every writer.
getUserProfile(pf, discordId, guildId, ok, now) ==
  LET docId == ProfileDocId(discordId, guildId)
  IN IF ok /\ docId \in DOMAIN pf
       THEN LET doc == pf[docId]
            IN <<[discord_id |-> Coalesce(doc, "discord_id", discordId),
                  guild_id |-> Coalesce(doc, "guild_id", guildId),
                  username |-> Coalesce(doc, "username", <<>>),
                  joined_at |-> Coalesce(doc, "joined_at", Null),
                  highest_role_id |-> Coalesce(doc, "highest_role_id", Null),
                  highest_role_name |-> Coalesce(doc, "highest_role_name", Null),
                  roblox_username |-> Coalesce(doc, "roblox_username", Null),
                  last_seen_at |-> IF "last_seen_at" \in DOMAIN doc THEN doc.last_seen_at ELSE now,
                  timezone |-> Coalesce(doc, "timezone", Null)]>>
       ELSE Null

\* lines 488-498: the document setUserTimezone creates
DefaultProfile(discordId, guildId, timezone, now) ==
  [discord_id |-> discordId, guild_id |-> guildId, username |-> <<>>,
   joined_at |-> Null, highest_role_id |-> Null, highest_role_name |-> Null,
   roblox_username |-> Null, last_seen_at |-> now, timezone |-> timezone]

\* the profiles the callers of upsertUserProfile hand over
CallerProfiles ==
  {[DefaultProfile(u, g, tz, clock) EXCEPT !.username = <<"a","l","i","c","e">>] :
     u \in ProfileUsers, g \in ProfileGuilds, tz \in {Null, <<"UTC">>}}

\* updateDocument, and createDocument when that failed (455-473, 478-507):
\* the stored documents afterwards
UpdateElseCreate(pf, docId, data, whole, okUpdate, okCreate) ==
  IF okUpdate /\ docId \in DOMAIN pf
    THEN [pf EXCEPT ![docId] = MergeDocument(@, data)]
  ELSE IF okCreate /\ docId \notin DOMAIN pf
    THEN (docId :> whole) @@ pf
  ELSE pf

\* both calls failed
BothFailed(pf, docId, okUpdate, okCreate) ==
  ~(okUpdate /\ docId \in DOMAIN pf) /\ ~(okCreate /\ docId \notin DOMAIN pf)

\* lines 452-474: upsertUserProfile; a failure of both calls is logged only
UpsertUserProfile(profile, okUpdate, okCreate) ==
  /\ LET docId == ProfileDocId(profile.discord_id, profile.guild_id)
     IN /\ profiles' = UpdateElseCreate(profiles, docId, profile, profile, okUpdate, okCreate)
        /\ call' = <<[op |-> "upsertUserProfile", discordId |-> profile.discord_id,
                      guildId |-> profile.guild_id, threw |-> FALSE]>>
  /\ UNCHANGED <<clock, config, listed, lookup, store, runVars, surfaceVars, handlerVars>>

\* lines 476-508: setUserTimezone; a failure of both calls is rethrown
SetUserTimezone(discordId, guildId, timezone, okUpdate, okCreate) ==
  /\ LET docId == ProfileDocId(discordId, guildId)
     IN /\ profiles' = UpdateElseCreate(profiles, docId, [timezone |-> timezone],
                                        DefaultProfile(discordId, guildId, timezone, clock),
                                        okUpdate, okCreate)
        /\ call' = <<[op |-> "setUserTimezone", discordId |-> discordId, guildId |-> guildId,
                      threw |-> BothFailed(profiles, docId, okUpdate, okCreate)]>>
  /\ UNCHANGED <<clock, config, listed, lookup, store, runVars, surfaceVars, handlerVars>>

\* lines 175-200: getUserProfile
GetUserProfile(discordId, guildId, ok) ==
  /\ call' = <<[op |-> "getUserProfile", discordId |-> discordId, guildId |-> guildId,
                threw |-> FALSE,
                profile |-> getUserProfile(profiles, discordId, guildId, ok, clock)]>>
  /\ UNCHANGED <<clock, config, listed, lookup, profiles, store, runVars, surfaceVars, handlerVars>>

\* SpecProfile: profiles of users of two guilds are written and read, the
\* store able to fail under every call
NextProfile ==
  \/ \E profile \in CallerProfiles, okUpdate, okCreate \in BOOLEAN :
       UpsertUserProfile(profile, okUpdate, okCreate)
  \/ \E u \in ProfileUsers, g \in ProfileGuilds, tz \in Timezones, okUpdate, okCreate \in BOOLEAN :
       SetUserTimezone(u, g, tz, okUpdate, okCreate)
  \/ \E u \in ProfileUsers, g \in ProfileGuilds, ok \in BOOLEAN : GetUserProfile(u, g, ok)

SpecProfile == Init /\ [][NextProfile]_vars

(***************************************************************************)
(* Properties.                                                             *)
(***************************************************************************)
Finished(r) == rpc[r] = "done"
Told(r, kind) == \E i \in 1..Len(replies[r]) : replies[r][i].kind = kind
Confirmed(r) == Finished(r) /\ Told(r, "assigned")
Published(r) == dm[r] # <<>> \/ chan[r] # <<>> \/ thread[r] # <<>>

\* the command's caller holds the administrator capability or a configured
\* privileged role
Privileged(c) ==
  \/ GuildMember(c.caller).hasPerm
  \/ GuildMember(c.caller).roles \cap config.STAFF_ROLE_IDS # {}

\* C1: a creation run that ended in a confirmation stored exactly one task,
\* under an id that was not in the store when the run started and that no
\* other confirmed run reports; the stored task has status assigned,
\* progress 0 and the priority, assignee and due date of the command.
C1_ConfirmedRunStoredItsTask ==
  \A r \in Runs : Confirmed(r) =>
    LET id == rl[r].task[1].task_id
    IN /\ rl[r].creates = 1
       /\ id \notin rl[r].idsAtStart
       /\ id \in DOMAIN store
       /\ \A i \in 1..Len(replies[r]) : replies[r][i].kind = "assigned" => replies[r][i].task_id = id
       /\ \A q \in Runs \ {r} : Confirmed(q) => rl[q].task[1].task_id # id
       /\ store[id].status = "assigned"
       /\ getTask(store, id, TRUE)[1].progress = <<0>>
       /\ store[id].priority = cmd[r].priority
       /\ store[id].assigned_to = cmd[r].assignee
       /\ store[id].assigned_by = cmd[r].caller
       /\ SubSeq(store[id].due_date, 1, Len(cmd[r].due)) = cmd[r].due

\* two confirmed runs with different assignees, the second started when the
\* task of the first was already stored
C1_Witness ==
  /\ Confirmed(1) /\ Confirmed(2)
  /\ rl[2].idsAtStart # {}
  /\ cmd[1].assignee # cmd[2].assignee

\* C2: a run that reported a failure to the requester created no record.
C2_FailureLeavesNoRecord ==
  \A r \in Runs :
    (Finished(r) /\ (Told(r, "error_processing") \/ Told(r, "failed_to_create")
                     \/ Told(r, "invalid_date") \/ Told(r, "no_permission")
                     \/ Told(r, "use_in_server")))
      => rl[r].creates = 0 /\ (rl[r].task # <<>> => rl[r].task[1].task_id \notin DOMAIN store)

\* C8: a command of a caller without the administrator capability and without
\* a privileged role goes no further than the rejection: no form, no record,
\* nothing published, and the only messages are the rejection (or the
\* listener's error message when the rejection itself could not be sent).
C8_UnprivilegedCallerRejected ==
  \A r \in Runs : (rpc[r] # "idle" /\ ~Privileged(cmd[r])) =>
    /\ rpc[r] \in {"reply_server", "reply_noperm", "router_catch", "done"}
    /\ rl[r].submitted = 0 /\ rl[r].task = <<>> /\ rl[r].creates = 0
    /\ DOMAIN store = rl[r].idsAtStart
    /\ ~Published(r)
    /\ (Finished(r) /\ rl[r].replied) =>
          replies[r] \in { <<Msg("no_permission")>>, <<Msg("use_in_server")>> }
    /\ ~rl[r].replied => replies[r] \in { <<>>, <<Msg("error_executing")>> }

\* a member with an unrelated role, in the guild and cached, was rejected
C8_Witness ==
  \E r \in Runs : /\ Finished(r) /\ cmd[r].caller = "u3" /\ cmd[r].inGuild /\ cmd[r].cached
                  /\ config.STAFF_ROLE_IDS # {}
                  /\ replies[r] = <<Msg("no_permission")>>

\* C9: a command whose due date does not parse as a date shows no form, stores
\* no task and publishes nothing; an authorised caller is told of the invalid
\* date.
C9_InvalidDateAborts ==
  \A r \in Runs : (rpc[r] # "idle" /\ ParseDate(cmd[r].due) = NaN) =>
    /\ rpc[r] \in {"reply_server", "reply_noperm", "fetch_channel", "reply_invalid",
                   "router_catch", "done"}
    /\ rl[r].submitted = 0 /\ rl[r].task = <<>> /\ rl[r].creates = 0
    /\ DOMAIN store = rl[r].idsAtStart
    /\ ~Published(r)
    /\ (Finished(r) /\ rl[r].replied /\ isAdmin(cmd[r], config)) =>
          replies[r] = <<Msg("invalid_date")>>

\* an administrator typed "soon" and was told the date is invalid
C9_Witness ==
  \E r \in Runs : /\ Finished(r) /\ cmd[r].caller = "u1" /\ cmd[r].due = <<"s","o","o","n">>
                  /\ replies[r] = <<Msg("invalid_date")>>

\* C10: a run whose details form was abandoned (the wait window elapsed)
\* stored nothing and told the requester of the timeout.
C10_TimeoutIsReported ==
  \A r \in Runs : (Finished(r) /\ rl[r].timedOut) =>
    /\ rl[r].creates = 0
    /\ Told(r, "timeout")

\* the task a control activation addresses, and whether it has been started
Started(h) == hpc[h] # "idle"
IsProgress(h) == KindOf(hin[h]) = ProgressKind
IsStatus(h) == KindOf(hin[h]) = StatusKind
Completed(h) == hpc[h] = "done" /\ hl[h].updated # <<>>
ByAssignee(h) ==
  /\ TaskIdOf(hin[h]) \in DOMAIN store
  /\ hin[h].user = store[TaskIdOf(hin[h])].assigned_to

InDomain(doc) ==
  LET t == DecodeTask(doc)
  IN /\ t.progress # NaN /\ t.progress[1] >= 0 /\ t.progress[1] <= 100
     /\ t.status \in {"assigned", "in_progress", "blocked", "done"}

\* C3: when a progress activation (value P) and a status activation (value S)
\* of the assignee on the same task have both completed, the stored task has
\* progress P and status S.
C3_ProgressAndStatusIndependent ==
  \A h, g \in Handlers :
    (/\ Completed(h) /\ Completed(g)
     /\ IsProgress(h) /\ IsStatus(g)
     /\ TaskIdOf(hin[h]) = TaskIdOf(hin[g]))
    => LET t == getTask(store, TaskIdOf(hin[h]), TRUE)[1]
       IN t.progress = JSNumber(hin[h].values[1]) /\ t.status = hin[g].values[1]

\* C4: no step of a control activation by an identity other than the task's
\* assignee changes the store, a published message or a thread, and the
\* activation ends with the rejection as the only message to the actor.
C4_NonAssigneeChangesNothing ==
  [][\A h \in Handlers :
       (Started(h) /\ ~ByAssignee(h) /\ hpc'[h] # hpc[h])
         => /\ store' = store /\ dm' = dm /\ chan' = chan /\ thread' = thread
            /\ hpc'[h] \in {"reply_notassignee", "done"}
            /\ hpc'[h] = "done" => hreplies'[h] = <<Msg("only_assignee")>>]_vars

\* a non-assignee was rejected after the assignee's activation had changed
\* the task
C4_Witness ==
  \E h, g \in Handlers :
    /\ hpc[h] = "done" /\ hin[h].user = "u3" /\ hreplies[h] = <<Msg("only_assignee")>>
    /\ Completed(g) /\ ByAssignee(g)

\* C5: right after a successful update of the progress to one of the offered
\* percentages N, getTask returns the integer N as the progress.
C5_ProgressRoundTrip ==
  [][\A h \in Handlers :
       (hpc[h] = "mutate" /\ hpc'[h] = "reload" /\ IsProgress(h))
         => \A c \in ProgressChoices :
              hin[h].values[1] = c.value =>
                getTask(store', TaskIdOf(hin[h]), TRUE)[1].progress = <<c.percent>>]_vars

\* the progress of a task at 100 was set to 75 and is stored as "75"
C5_Witness ==
  \E h, g \in Handlers :
    /\ Completed(g) /\ IsProgress(g) /\ hin[g].values[1] = <<"1","0","0">>
    /\ hpc[h] = "reload" /\ IsProgress(h) /\ hin[h].values[1] = <<"7","5">>
    /\ hl[h].task[1].progress = <<100>>
    /\ store[TaskIdOf(hin[h])].progress = <<"7","5">>

\* every activation so far carried a value its selector offers
OnlyOfferedValues ==
  \A h \in Handlers : Started(h) =>
    hin[h].values[1] \in (IF IsProgress(h) THEN ProgressOptions ELSE StatusOptions)

\* C6: as long as the activations carry offered values, every stored task has
\* a progress in [0,100] and one of the four statuses.
C6_StoredTasksInDomain ==
  OnlyOfferedValues => \A id \in DOMAIN store : InDomain(store[id])

\* two offered values were stored after the pointer patch
C6_Witness ==
  /\ OnlyOfferedValues
  /\ \A h \in Handlers : Completed(h)
  /\ \E id \in DOMAIN store :
       /\ store[id].progress = <<"1","0","0">> /\ store[id].status = "blocked"
       /\ "thread_id" \in DOMAIN store[id]

\* C7: whatever value an activation of the assignee carries, every stored
\* task has a progress in [0,100] and one of the four statuses.
C7_UpdatePathKeepsDomain ==
  \A id \in DOMAIN store : InDomain(store[id])


\* the awaited calls of the publication phase of execute (lines 260-335)
PublishLabels ==
  {"dm_send", "channel_send", "thread_create", "add_assignee", "add_admin", "add_role",
   "thread_intro", "channel_edit"}

\* C11: whatever the outcome of a publication call, the run goes on to a
\* later publication call or to the pointer patch: after the DM attempt the
\* channel post is attempted whenever a staff channel was resolved, after a
\* channel post the thread is attempted or the patch follows, and the patch
\* is always followed by a report; the task stays stored throughout.
C11_MirrorFailuresAreIsolated ==
  [][\A r \in Runs :
       (rpc[r] \in PublishLabels \cup {"patch"} /\ rpc'[r] # rpc[r]) =>
         /\ rl[r].task[1].task_id \in DOMAIN store'
         /\ rpc[r] \in PublishLabels => rpc'[r] \in PublishLabels \cup {"patch"}
         /\ rpc[r] = "dm_send" =>
              rpc'[r] = (IF rl[r].channel THEN "channel_send" ELSE "patch")
         /\ rpc[r] = "channel_send" => rpc'[r] \in {"thread_create", "patch"}
         /\ rpc[r] = "patch" => rpc'[r] \in {"confirm", "confirm_failed"}]_vars

\* the DM failed, the channel post succeeded, the thread could not be
\* created, and the run still patched the pointers and confirmed
C11_Witness ==
  \E r \in Runs :
    /\ Confirmed(r) /\ rl[r].dmFailed /\ chan[r] # <<>> /\ thread[r] = <<>>
    /\ rl[r].warnings = <<WarnThread>>
    /\ "channel_message_id" \in DOMAIN store[rl[r].task[1].task_id]


\* the surface refreshes of handleComponent (lines 417-463)
RefreshLabels == {"edit_reply", "dm_sync", "chan_sync", "audit"}

\* C12: once the mutation is stored, whatever the outcome of the refresh of
\* one surface, the activation goes on to the next surface whose identifier
\* is recorded (or ends), and nothing is raised to the listener.
C12_RefreshFailuresAreIsolated ==
  [][\A h \in Handlers :
       (hpc[h] \in RefreshLabels /\ hpc'[h] # hpc[h]) =>
         LET updated == hl[h].updated[1]
         IN /\ hpc'[h] # "router_catch"
            /\ hpc[h] = "edit_reply" => hpc'[h] = AfterEditReply(updated)
            /\ hpc[h] = "dm_sync" => hpc'[h] = AfterDmSync(updated)
            /\ hpc[h] = "chan_sync" => hpc'[h] = AfterChanSync(updated)
            /\ hpc[h] = "audit" => hpc'[h] = "done"]_vars


\* a published message shows the progress and status of task t
Displays(surface, t) ==
  surface # <<>> =>
    /\ surface[1].embed # <<>>
    /\ surface[1].embed.status = t.status
    /\ surface[1].embed.progress = JSString(t.progress) \o <<"%">>

NoActivationInFlight == \A h \in Handlers : hpc[h] \in {"idle", "done"}

\* C13: whenever no control activation is in flight, the message each
\* completed activation came from, the DM mirror and the channel mirror (the
\* mirrors when their identifiers are recorded on the task) show the progress
\* and status stored for the task.
C13_MirrorsCatchUp ==
  NoActivationInFlight =>
    \A r \in Runs :
      (rl[r].task # <<>> /\ rl[r].task[1].task_id \in DOMAIN store) =>
        LET t == DecodeTask(store[rl[r].task[1].task_id])
        IN /\ t.dm_message_id # Null => Displays(dm[r], t)
           /\ (t.channel_id # Null /\ t.channel_message_id # Null) => Displays(chan[r], t)
           /\ \A h \in Handlers :
                (Completed(h) /\ TaskIdOf(hin[h]) = t.task_id)
                  => Displays(SurfaceOf(hin[h].message), t)


\* C14: a finished run that stored its task told the requester, in a report
\* carrying the task id, of the DM failure exactly when the DM send failed
\* and of every warning the run accumulated.
C14_StoredRunReportsEverything ==
  \A r \in Runs :
    (Finished(r) /\ rl[r].creates > 0) =>
      \E i \in 1..Len(replies[r]) :
        /\ replies[r][i].kind = "assigned"
        /\ replies[r][i].task_id = rl[r].task[1].task_id
        /\ replies[r][i].dmNote = rl[r].dmFailed
        /\ replies[r][i].warnings = rl[r].warnings


\* C15: a failed pointer patch changes neither the store nor anything
\* published, the task stays stored, and the report that follows tells the
\* requester that the message references were not saved, again without
\* touching the store or the published messages.
C15_FailedPatchIsReportedNotRetracted ==
  [][\A r \in Runs :
       /\ (rpc[r] = "patch" /\ rpc'[r] = "confirm_failed") =>
            /\ store' = store /\ dm' = dm /\ chan' = chan /\ thread' = thread
            /\ rl[r].task[1].task_id \in DOMAIN store'
       /\ (rpc[r] = "confirm_failed" /\ rpc'[r] = "done") =>
            /\ replies'[r] = Append(replies[r], Report(rl[r], FALSE))
            /\ store' = store /\ dm' = dm /\ chan' = chan /\ thread' = thread
            /\ rl[r].task[1].task_id \in DOMAIN store']_vars

\* a run that published a DM, a channel post and a thread was told that the
\* references were not saved; the stored task has no pointers
C15_Witness ==
  \E r \in Runs :
    /\ Finished(r)
    /\ dm[r] # <<>> /\ chan[r] # <<>> /\ thread[r] # <<>>
    /\ replies[r] = <<Report(rl[r], FALSE)>>
    /\ rl[r].task[1].task_id \in DOMAIN store
    /\ "thread_id" \notin DOMAIN store[rl[r].task[1].task_id]


\* the awaited calls a creation run and a control activation can be suspended
\* at, all of them inside the listener's try blocks
RunLabels ==
  {"idle", "reply_server", "reply_noperm", "fetch_channel", "reply_invalid", "show_modal",
   "await_modal", "modal_submitted", "create_task", "defer_update", "modal_catch",
   "patch", "confirm", "confirm_failed", "outer_catch", "router_catch", "done"}
    \cup PublishLabels

HandlerLabels ==
  {"idle", "load", "reply_notfound", "reply_notassignee", "defer", "mutate", "reload",
   "reply_degraded", "router_catch", "done"} \cup RefreshLabels

\* C16: whatever fails, a creation run and a control activation stay inside
\* the listener: a failure a handler does not catch itself arrives at the
\* listener's catch, whose single step attempts the generic message (a reply
\* to the user, or an overwrite of the message once the interaction was
\* deferred) and ends the handling whether or not that attempt succeeds.
C16_NothingEscapesTheListener ==
  [][/\ \A r \in Runs :
          /\ rpc'[r] \in RunLabels
          /\ (rpc[r] = "router_catch" /\ rpc'[r] # rpc[r]) =>
               /\ rpc'[r] = "done"
               /\ replies'[r] \in {replies[r], Append(replies[r], Msg("error_executing"))}
     /\ \A h \in Handlers :
          /\ hpc'[h] \in HandlerLabels
          /\ (hpc[h] = "router_catch" /\ hpc'[h] # hpc[h]) =>
               /\ hpc'[h] = "done"
               /\ IF hl[h].deferred \/ hl[h].replied
                    THEN /\ hreplies'[h] = hreplies[h]
                         /\ SurfaceOf(hin[h].message)' \in {SurfaceOf(hin[h].message), <<Wiped>>}
                    ELSE /\ hreplies'[h] \in {hreplies[h],
                                              Append(hreplies[h], Msg("error_processing_interaction"))}
                         /\ dm' = dm /\ chan' = chan
               /\ store' = store]_vars

\* the creation run ended in the listener's catch with the generic message,
\* and an activation that failed after its deferUpdate ended there with the
\* message it came from overwritten
C16_Witness ==
  /\ \E r \in Runs : Finished(r) /\ Told(r, "error_executing")
  /\ \E h \in Handlers :
       /\ hpc[h] = "done" /\ hl[h].deferred
       /\ SurfaceOf(hin[h].message) = <<Wiped>>


\* C17: an activation whose getTask returned nothing goes straight to the
\* 'Task not found.' reply; neither the load nor the reply changes the store,
\* a published message or a thread, and when the reply is delivered it is the
\* only message the actor gets.
C17_TaskNotFoundIsVisibleAndInert ==
  [][\A h \in Handlers :
       /\ (hpc[h] = "load" /\ hpc'[h] # hpc[h] /\ hl'[h].task = <<>>) =>
            /\ hpc'[h] = "reply_notfound"
            /\ store' = store /\ dm' = dm /\ chan' = chan /\ thread' = thread
       /\ (hpc[h] = "reply_notfound" /\ hpc'[h] # hpc[h]) =>
            /\ store' = store /\ dm' = dm /\ chan' = chan /\ thread' = thread
            /\ hpc'[h] \in {"done", "router_catch"}
            /\ hpc'[h] = "done" => hreplies'[h] = <<Msg("task_not_found")>>
            /\ hpc'[h] = "router_catch" => (hreplies'[h] = <<>> /\ ~hl'[h].deferred)]_vars

\* the read of the task failed after the assignee's earlier activation had
\* changed it; the actor was told 'Task not found.' and the task is as the
\* earlier activation left it
C17_Witness ==
  \E h, g \in Handlers :
    /\ Completed(g) /\ g < h
    /\ hpc[h] = "done" /\ hl[h].task = <<>> /\ hreplies[h] = <<Msg("task_not_found")>>
    /\ TaskIdOf(hin[h]) \in DOMAIN store
    /\ IsProgress(g) /\ store[TaskIdOf(hin[h])].progress = hin[g].values[1]




\* C18: a listUserTasks(u, g) call whose store call succeeds returns the
\* stored tasks whose assigned_to is u and whose guild_id is g, each once and
\* no others; a call whose store call fails returns the empty sequence.
C18_ListReturnsExactlyTheMatches ==
  [][listed' # listed =>
       LET q == listed'[1]
           ids == {q.tasks[i].task_id : i \in 1..Len(q.tasks)}
       IN IF q.ok
            THEN /\ ids = MatchingIds(store, q.user, q.guild)
                 /\ Len(q.tasks) = Cardinality(ids)
            ELSE q.tasks = <<>>]_vars


\* C19: every stored document is keyed by its own task_id; a createTask whose
\* id is already stored fails and leaves the store as it was, and a
\* createTask that succeeds adds one document and changes no other.
C19_TaskIdsStayUnique ==
  [][/\ \A id \in DOMAIN store' : store'[id].task_id = id
     /\ \A r \in Runs :
          (rpc[r] = "create_task" /\ rpc'[r] # rpc[r]) =>
            LET id == rl[r].task[1].task_id
            IN IF id \in DOMAIN store
                 THEN store' = store /\ rpc'[r] = "modal_catch"
                 ELSE \/ store' = store
                      \/ /\ DOMAIN store' = DOMAIN store \cup {id}
                         /\ \A k \in DOMAIN store : store'[k] = store[k]]_vars

\* two commands read the same clock tick: the second creation was refused,
\* its requester was told of the failure, and the stored task is the first
\* command's
C19_Witness ==
  \E r, q \in Runs :
    /\ r # q /\ Confirmed(q) /\ Finished(r)
    /\ rl[r].task # <<>> /\ rl[r].task[1].task_id = rl[q].task[1].task_id
    /\ rl[r].creates = 0 /\ Told(r, "error_processing")
    /\ cmd[r].assignee # cmd[q].assignee
    /\ store[rl[q].task[1].task_id].assigned_to = cmd[q].assignee


\* the fields of a task that are set at creation
CreationFields ==
  {"task_id", "guild_id", "assigned_by", "assigned_to", "title", "description", "priority",
   "due_date", "created_at"}

\* C20: no step changes a creation field of a task that is already stored:
\* the pointer patch and the control activations leave task_id, guild_id,
\* assigned_by, assigned_to, title, description, priority, due_date and
\* created_at as createTask wrote them.
C20_CreationFieldsAreFrozen ==
  [][\A id \in DOMAIN store :
       /\ id \in DOMAIN store'
       /\ \A f \in CreationFields :
            /\ f \in DOMAIN store[id] /\ f \in DOMAIN store'[id]
            /\ store'[id][f] = store[id][f]]_vars

\* after the pointer patch, a progress and a status activation at a later
\* clock tick, the task still has the creation time it was stored with
C20_Witness ==
  \E id \in DOMAIN store :
    /\ "thread_id" \in DOMAIN store[id]
    /\ \A h \in Handlers : Completed(h)
    /\ \E h, g \in Handlers : IsProgress(h) /\ IsStatus(g)
    /\ store[id].progress = <<"5","0">> /\ store[id].status = "done"
    /\ store[id].updated_at > store[id].created_at


\* the records a run and the activations on its task have rendered so far
RenderedRecords(r) ==
  {rl[r].task[1]} \cup
  {hl[h].updated[1] : h \in {g \in Handlers : hl[g].updated # <<>>
                                                 /\ hl[g].updated[1].task_id = rl[r].task[1].task_id}}

\* C21: every published message of a task shows what rendering one of the
\* rendered records gives when it is rendered again in the current state,
\* whatever the clock and the store have become since it was published.
C21_RenderingIsPure ==
  \A r \in Runs : rl[r].task # <<>> =>
    \A s \in {dm[r], chan[r]} : s # <<>> =>
      \E rec \in RenderedRecords(r) :
        /\ s[1].embed = taskEmbed(rec)
        /\ s[1].components = buildControls(rec.task_id)

\* the DM and the channel post were published before a clock tick, two
\* activations changed the task after it and refreshed both messages
C21_Witness ==
  \E r \in Runs :
    /\ dm[r] # <<>> /\ chan[r] # <<>>
    /\ \A h \in Handlers : Completed(h)
    /\ clock > rl[r].task[1].created_at
    /\ dm[r][1].embed = chan[r][1].embed
    /\ dm[r][1].embed # taskEmbed(rl[r].task[1])
    /\ dm[r][1].embed.timestamp > rl[r].task[1].created_at


\* the texts getRobloxUsername can give: a name the lookup service or the
\* Roblox API answered, or the Roblox id fallback
UsernameTexts == {<<"Builder">>, <<"builder">>, RobloxIdLabel("77")}

PatchedLabels == {"patch", "confirm", "confirm_failed", "outer_catch", "router_catch", "done"}

\* the DM attempt of a run has finished, one way or the other
DmAttempted(r) == rl[r].dmMessageId # Null \/ rl[r].dmFailed

\* C23: the record is stored before anything is published (no DM, channel
\* post or thread exists for a task id absent from the store); the channel
\* post is attempted only after the DM attempt and the thread only after the
\* channel post; from the pointer patch on the run publishes nothing more
C23_StoreThenPublishThenPatch ==
  [][\A r \in Runs :
       /\ rpc[r] \in PublishLabels =>
            /\ rl[r].task # <<>>
            /\ rl[r].task[1].task_id \in DOMAIN store
       /\ (dm'[r] # <<>> \/ chan'[r] # <<>> \/ thread'[r] # <<>>) =>
            /\ rl'[r].task # <<>>
            /\ rl'[r].task[1].task_id \in DOMAIN store'
       /\ rpc[r] = "channel_send" => DmAttempted(r) /\ chan[r] = <<>> /\ thread[r] = <<>>
       /\ rpc[r] = "thread_create" => DmAttempted(r) /\ chan[r] # <<>> /\ thread[r] = <<>>
       /\ dm'[r] # dm[r] => rpc[r] = "dm_send" /\ chan[r] = <<>> /\ thread[r] = <<>>
       /\ rpc[r] \in PatchedLabels =>
            /\ rpc'[r] \in PatchedLabels
            /\ dm'[r] = dm[r] /\ chan'[r] = chan[r] /\ thread'[r] = thread[r]
       /\ (/\ rl[r].task # <<>>
           /\ rl[r].task[1].task_id \in DOMAIN store
           /\ store'[rl[r].task[1].task_id] # store[rl[r].task[1].task_id]) => rpc[r] = "patch"]_vars

C23_Witness ==
  \E r \in Runs :
    /\ rpc[r] = "done"
    /\ dm[r] # <<>> /\ chan[r] # <<>> /\ thread[r] # <<>>
    /\ rl[r].task[1].task_id \in DOMAIN store
    /\ DecodeTask(store[rl[r].task[1].task_id]).thread_id = ThreadId(r)


\* C24: the stored pointers agree with what was published: a thread id only
\* with a channel message id, channel message id and channel id both null
\* or both set, and each pointer set only to what the task's creation run
\* actually published
C24_PointersMatchPublications ==
  \A r \in Runs :
    (rl[r].task # <<>> /\ rl[r].task[1].task_id \in DOMAIN store) =>
      LET t == DecodeTask(store[rl[r].task[1].task_id])
      IN /\ t.thread_id # Null => t.channel_message_id # Null
         /\ t.channel_message_id = Null <=> t.channel_id = Null
         /\ t.dm_message_id # Null => dm[r] # <<>> /\ t.dm_message_id = DmMessageId(r)
         /\ t.channel_message_id # Null =>
              chan[r] # <<>> /\ t.channel_message_id = ChannelMessageId(r)
                             /\ t.channel_id = StaffChannel
         /\ t.thread_id # Null => thread[r] # <<>> /\ t.thread_id = ThreadId(r)

C24_Witness ==
  \E r \in Runs :
    /\ rpc[r] = "done" /\ rl[r].task # <<>> /\ rl[r].dmFailed
    /\ rl[r].task[1].task_id \in DOMAIN store
    /\ LET t == DecodeTask(store[rl[r].task[1].task_id])
       IN t.dm_message_id = Null /\ t.channel_id = StaffChannel /\ t.thread_id = ThreadId(r)


\* the assignee check of lines 395-398 has passed for the loaded task
Authorized(h) == hl[h].task # <<>> /\ hin[h].user = hl[h].task[1].assigned_to

\* positions at which an activation rewrites a published message
RewriteLabels == {"edit_reply", "dm_sync", "chan_sync", "router_catch"}

\* C25: an activation runs load, assignee check, acknowledgement, update,
\* reload, refresh in that order: it is acknowledged only after the check
\* passed, the store is updated only by an acknowledged activation, the
\* reload follows the update and a refresh follows a successful reload
C25_UpdateFlowOrder ==
  [][/\ \A h \in Handlers :
          /\ (hl'[h].deferred /\ ~hl[h].deferred) => hpc[h] = "defer" /\ Authorized(h)
          /\ (hpc'[h] = "mutate" /\ hpc[h] # "mutate") => hpc[h] = "defer" /\ hl'[h].deferred
          /\ (hpc'[h] = "reload" /\ hpc[h] # "reload") => hpc[h] = "mutate" /\ hl[h].deferred
          /\ (hl'[h].updated # hl[h].updated /\ hpc[h] # "idle") => hpc[h] = "reload"
          /\ (hpc'[h] \in {"edit_reply", "dm_sync", "chan_sync", "audit"} /\ hpc'[h] # hpc[h]) =>
               hl'[h].updated # <<>> /\ hl'[h].deferred
     /\ (rpc' = rpc /\ store' # store) =>
          \E h \in Handlers : /\ hpc[h] = "mutate" /\ hpc'[h] = "reload"
                              /\ hl[h].deferred /\ Authorized(h)
     /\ (rpc' = rpc /\ <<dm', chan'>> # <<dm, chan>>) =>
          \E h \in Handlers : /\ hpc[h] \in RewriteLabels /\ hpc'[h] # hpc[h]
                              /\ hl[h].deferred /\ Authorized(h)
                              /\ hpc[h] # "router_catch" => hl[h].updated # <<>>]_vars

C25_Witness ==
  \E h \in Handlers :
    /\ hpc[h] = "done" /\ hl[h].deferred /\ hl[h].updated # <<>>
    /\ SurfaceOf(hin[h].message) = <<Payload(hl[h].updated[1])>>
    /\ \E g \in Handlers : hpc[g] = "done" /\ hl[g].task # <<>> /\ ~Authorized(g) /\ ~hl[g].deferred


\* C26: when the reload after a stored mutation finds nothing, the actor
\* gets 'Task updated, but failed to refresh view.' and the activation ends
\* there: no published message or thread is touched, and the record keeps
\* the mutation.
C26_FailedReloadIsReported ==
  [][\A h \in Handlers :
       (hl[h].deferred /\ hl[h].updated = <<>>
          /\ hpc[h] \in {"reply_degraded", "router_catch"} /\ hpc'[h] # hpc[h]) =>
         /\ hpc'[h] = "done"
         /\ hreplies'[h] = <<Msg("updated_not_refreshed")>>
         /\ store' = store /\ dm' = dm /\ chan' = chan /\ thread' = thread]_vars


\* the activations whose update is applied to task id in this step
Writers(id) ==
  {h \in Handlers : hpc[h] = "mutate" /\ hpc'[h] = "reload" /\ TaskIdOf(hin[h]) = id}

\* C27: while the activations on a task are progress activations, every
\* change of the record outside the creation run is the update of one of
\* them: it stores that activation's value and leaves every other field but
\* updated_at as it was; so once both have completed the stored progress is
\* the value of the update applied last, one of the two selected values
C27_LastWriteWins ==
  [][\A id \in DOMAIN store :
       (\A g \in Handlers : Started(g) => IsProgress(g)) =>
         /\ (rpc' = rpc /\ store'[id] # store[id]) =>
              \E h \in Writers(id) :
                /\ store'[id].progress = hin[h].values[1]
                /\ DOMAIN store'[id] = DOMAIN store[id]
                /\ \A f \in DOMAIN store[id] \ {"progress", "updated_at"} :
                     store'[id][f] = store[id][f]
         /\ rpc' # rpc => store'[id].progress = store[id].progress
         /\ (\A h \in Handlers : Completed(h)' /\ TaskIdOf(hin'[h]) = id) =>
              store'[id].progress \in {hin'[h].values[1] : h \in Handlers}]_vars

\* two progress activations interleaved: the first to update reloaded the
\* value of the second, which is the one stored
C27_Witness ==
  \E h, g \in Handlers :
    /\ h # g /\ Completed(h) /\ Completed(g) /\ IsProgress(h) /\ IsProgress(g)
    /\ hin[h].values # hin[g].values
    /\ hl[h].updated[1].progress = JSNumber(hin[g].values[1])
    /\ store[TaskIdOf(hin[h])].progress = hin[g].values[1]
    /\ DecodeTask(store[TaskIdOf(hin[h])]).thread_id # Null


\* the value of the field an activation changes, as the store holds it
StoredValue(h) ==
  IF IsProgress(h) THEN store[TaskIdOf(hin[h])].progress ELSE store[TaskIdOf(hin[h])].status

\* C28: the audit line of an activation names the actor, gives as 'before'
\* the value the store held right before that activation's update and as
\* 'after' the value that activation selected, also when activations
\* interleave (the 'before' of the line is fixed when the task is loaded, so
\* it is compared with the store at the update of an activation whose task
\* has a thread); whether or not the line can be posted, the activation ends.
C28_AuditLineIsAccurate ==
  [][\A h \in Handlers :
       /\ (hpc[h] = "mutate" /\ hpc'[h] = "reload" /\ hl[h].task[1].thread_id # Null) =>
            AuditLine(hin[h], hl[h].task[1], hl[h].task[1]).before = StoredValue(h)
       /\ (hpc[h] = "audit" /\ hpc'[h] # hpc[h]) =>
            /\ hpc'[h] = "done"
            /\ thread' # thread =>
                 LET t == hl[h].updated[1].thread_id[2]
                     line == thread'[t][1].lines[Len(thread'[t][1].lines)]
                 IN /\ line.actor = hin[h].user
                    /\ line.after = hin[h].values[1]]_vars


\* an id no task was stored under
AbsentId == <<"n","o","n","e">>

\* the (assignee, guild) pairs a stored task belongs to
Owners == {<<store[id].assigned_to, store[id].guild_id>> : id \in DOMAIN store}

\* C29: reads never raise on bad data: getTask gives the not-found sentinel
\* for an absent id and for a failed store call; for whatever the store
\* holds, getTask and listUserTasks give records whose status is one of the
\* four values, and the list has an entry for every matching document of
\* the page.
C29_ReadsGiveValidRecords ==
  /\ getTask(store, AbsentId, TRUE) = <<>>
  /\ \A id \in DOMAIN store :
       /\ getTask(store, id, FALSE) = <<>>
       /\ getTask(store, id, TRUE) # <<>>
       /\ getTask(store, id, TRUE)[1].status \in StatusOptions
  /\ \A o \in Owners :
       LET tasks == listUserTasks(store, o[1], o[2], TRUE)
       IN /\ Len(tasks) = Len(ListDocuments(store, o[1], o[2]))
          /\ \A i \in 1..Len(tasks) : tasks[i].status \in StatusOptions

\* the progress the reads should give for a stored document
ExpectedProgress(doc) ==
  IF "progress" \notin DOMAIN doc THEN <<0>>
  ELSE IF JSNumber(doc.progress) = NaN THEN <<0>>
  ELSE JSNumber(doc.progress)

\* C30: getTask and listUserTasks read the stored progress text back as the
\* number it denotes, and as 0 when the text is missing or denotes no number
C30_ProgressReadsBackAsNumber ==
  /\ \A id \in DOMAIN store :
       getTask(store, id, TRUE)[1].progress = ExpectedProgress(store[id])
  /\ \A o \in Owners :
       LET tasks == listUserTasks(store, o[1], o[2], TRUE)
           ids == ListDocuments(store, o[1], o[2])
       IN \A i \in 1..Len(tasks) : tasks[i].progress = ExpectedProgress(store[ids[i]])


\* C31: every successful update stamps updated_at with the current time, so
\* updated_at never decreases and is never earlier than created_at; an
\* update addressed to an absent id fails and stores nothing; no record
\* disappears.  (A step that leaves the clock alone is a call.)
C31_UpdatesStampTheTime ==
  [][/\ \A id \in DOMAIN store :
          /\ id \in DOMAIN store'
          /\ store'[id].updated_at >= store[id].updated_at
          /\ store'[id] # store[id] => store'[id].updated_at = clock
     /\ \A id \in DOMAIN store' : store'[id].updated_at >= store'[id].created_at
     /\ (clock' = clock /\ call' # <<>> /\ call'[1].op = "updateTask") =>
          /\ call'[1].id \notin DOMAIN store => (call'[1].threw /\ store' = store)
          /\ ~call'[1].threw => store'[call'[1].id].updated_at = clock]_vars

\* a task created at the first reading of the clock was updated at a later
\* one, and the last update, addressed to an absent id, failed
C31_Witness ==
  /\ call # <<>> /\ call[1].op = "updateTask" /\ call[1].threw
  /\ call[1].id \notin DOMAIN store
  /\ \E id \in DOMAIN store :
       store[id].updated_at > store[id].created_at /\ store[id].progress = <<"5","0">>


\* the identifier starts with the five characters t a s k :
HasTaskPrefix(cid) ==
  /\ Len(cid) >= 5
  /\ cid[1] = "t" /\ cid[2] = "a" /\ cid[3] = "s" /\ cid[4] = "k" /\ cid[5] = ":"

\* C32: a component interaction goes to the task workflow exactly when it
\* is a select menu whose identifier starts with 'task:'; buttons and all
\* other select menus go to the info panel, at any time and under any
\* configuration.
C32_DispatchByPrefix ==
  (call # <<>> /\ call[1].op = "dispatch") =>
    /\ call[1].handler = "handleTaskComponent" <=>
         (call[1].component = "select" /\ HasTaskPrefix(call[1].customId))
    /\ call[1].handler \in {"handleTaskComponent", "handleComponent"}

\* a button carrying a task selector's identifier went to the info panel
C32_Witness ==
  /\ call # <<>> /\ call[1].op = "dispatch"
  /\ call[1].component = "button" /\ call[1].customId \in ControlIds
  /\ call[1].handler = "handleComponent"
  /\ clock > ClockStart /\ config.STAFF_CHANNEL_ID # Null

\* C33: for every generated task id, the identifiers buildControls gives
\* its two selectors are routed to the task workflow and split on ':' into
\* the same kind and the same task id.
C33_ControlIdsRoundTrip ==
  (call # <<>> /\ call[1].op = "dispatch" /\ call[1].component = "select") =>
    \A id \in GeneratedIds :
      /\ call[1].customId = buildControls(id).progress =>
           /\ call[1].handler = "handleTaskComponent"
           /\ call[1].kind = ProgressKind /\ call[1].taskId = id
      /\ call[1].customId = buildControls(id).status =>
           /\ call[1].handler = "handleTaskComponent"
           /\ call[1].kind = StatusKind /\ call[1].taskId = id

\* the status selector of a task of the other guild, created at the later
\* reading of the clock, was parsed back to that task
C33_Witness ==
  /\ call # <<>> /\ call[1].op = "dispatch" /\ call[1].component = "select"
  /\ call[1].customId = buildControls(NewTaskId(OtherGuild, ClockStart + MaxTicks)).status
  /\ call[1].kind = StatusKind
  /\ call[1].taskId = NewTaskId(OtherGuild, ClockStart + MaxTicks)


\* the awaited calls of the creation flow and of a control activation, in the
\* order the code can reach them
RunOrder == <<"idle", "fetch_channel", "reply_server", "reply_noperm", "reply_invalid",
              "show_modal", "await_modal", "modal_submitted", "create_task",
              "defer_update", "dm_send", "channel_send", "thread_create",
              "add_assignee", "add_admin", "add_role", "thread_intro", "channel_edit",
              "patch", "confirm", "confirm_failed", "modal_catch", "outer_catch",
              "router_catch", "crashed", "done">>

HandlerOrder == <<"idle", "load", "reply_notfound", "reply_notassignee", "defer",
                  "mutate", "reload", "reply_degraded", "edit_reply", "dm_sync",
                  "chan_sync", "audit", "router_catch", "done">>

PlaceIn(order, label) == CHOOSE i \in 1..Len(order) : order[i] = label

\* every endpoint of the run of fetchLookup under way has answered 404 so far
OnlyNotFoundSoFar == lookup.pc = "request" /\ lookup.all404 /\ lookup.lastErr = <<>>

NotLinked(l) ==
  IF l.fn = "getRobloxInfo" THEN l.info = <<RobloxInfo(Null, Null)>> /\ l.thrown = <<>>
  ELSE l.result = Null /\ l.thrown = <<>>

StoredFrom(m) == {r \in Runs : rl[r].submitted = m /\ rl[r].creates > 0}

\* C35: each submitted details form stores at most one task, also when two
\* commands of the same requester were waiting for the form
C35_OneFormOneTask ==
  \A m \in 1..modals : Cardinality(StoredFrom(m)) <= 1


\* C36: after an activation by the assignee has ended, whatever failed on the
\* way, the message the control sits on still shows the task and carries the
\* progress and status controls of that task
C36_OriginKeepsControls ==
  \A h \in Handlers :
    (hpc[h] = "done" /\ hl[h].task # <<>> /\ hin[h].user = hl[h].task[1].assigned_to) =>
      LET surface == SurfaceOf(hin[h].message)
      IN /\ surface # <<>>
         /\ surface[1].embed # <<>>
         /\ surface[1].components = buildControls(hl[h].task[1].task_id)


PointerFields == {"dm_message_id", "channel_message_id", "channel_id", "thread_id"}

\* C37: the pointer patch of the creation flow changes nothing in the stored
\* task but the four pointers and updated_at, so an update the assignee
\* applied after the task was stored and before the patch is kept
C37_PatchWritesPointersOnly ==
  [][\A r \in Runs :
       (rpc[r] = "patch" /\ rpc'[r] = "confirm") =>
         LET id == rl[r].task[1].task_id
         IN /\ id \in DOMAIN store'
            /\ \A f \in DOMAIN store[id] \ (PointerFields \cup {"updated_at"}) :
                 f \in DOMAIN store'[id] /\ store'[id][f] = store[id][f]
            /\ DOMAIN store'[id] \subseteq DOMAIN store[id] \cup PointerFields \cup {"updated_at"}]_vars

\* an activation stored its update and read it back before the pointers were
\* written; the patch has been applied since and the update is still stored
C37_Witness ==
  \E r \in Runs, h \in Handlers :
    /\ rpc[r] \in {"confirm", "done"}
    /\ rl[r].task # <<>>
    /\ rl[r].task[1].task_id \in DOMAIN store
    /\ hl[h].updated # <<>>
    /\ hl[h].updated[1].task_id = rl[r].task[1].task_id
    /\ hl[h].updated[1].dm_message_id = Null
    /\ hl[h].updated[1].progress # rl[r].task[1].progress
    /\ LET doc == DecodeTask(store[rl[r].task[1].task_id])
       IN /\ doc.dm_message_id # Null
          /\ doc.progress = hl[h].updated[1].progress
          /\ doc.status = hl[h].updated[1].status


\* C38: a channel mirror that references the task's thread keeps referencing
\* it, whatever activation rewrites the mirror later
C38_MirrorKeepsThreadLink ==
  [][\A r \in Runs :
       (chan[r] # <<>> /\ chan[r][1].threadLink # Null) =>
         (chan'[r] # <<>> /\ chan'[r][1].threadLink = chan[r][1].threadLink)]_vars


ProfilePairs == ProfileUsers \X ProfileGuilds

\* C39: a write of one (user, guild) pair's profile leaves the profile read
\* for every other pair as it was
C39_ProfilesAreIsolated ==
  [][profiles' # profiles =>
       \A q \in ProfilePairs :
         q # <<call'[1].discordId, call'[1].guildId>> =>
           getUserProfile(profiles', q[1], q[2], TRUE, clock)
             = getUserProfile(profiles, q[1], q[2], TRUE, clock)]_vars


\* the elements listUserTasks returns for the document's assignee and guild
\* that carry the document's id
ListedFor(id) ==
  LET tasks == listUserTasks(store, store[id].assigned_to, store[id].guild_id, TRUE)
  IN {tasks[i] : i \in {k \in 1..Len(tasks) : tasks[k].task_id = id}}

\* C40: for every stored task, getTask and listUserTasks give the same
\* record: the listing has exactly one element with the task's id, equal to
\* what getTask returns, field by field
C40_DecodersAgree ==
  \A id \in DOMAIN store : ListedFor(id) = {getTask(store, id, TRUE)[1]}

====
